---- MODULE Spec2Model ----
(***************************************************************************)
(* A model of the periodic-investment backtester: the funding scheduler,   *)
(* the strategy variants' per-bar handler (BaseStrategy.next and           *)
(* RSIAccumulationStrategy.next), the broker cycle that cerebro.run()      *)
(* drives before each handler call, and the engine's closed-form metric.   *)
(*                                                                         *)
(* Money held by the strategy is in whole dollars.  The broker's cash is   *)
(* in ticks of 1/2000 dollar, the unit in which the 0.0005 commission of   *)
(* a whole-dollar trade is a whole number.  Dates are day numbers counted  *)
(* from Monday 2018-01-01.                                                 *)
(***************************************************************************)
EXTENDS Integers, Sequences, FiniteSets, TLC

(***************************************************************************)
(* Calendar: what datetime.date gives for a day number.                    *)
(***************************************************************************)
IsLeap(y) == (y % 4 = 0 /\ y % 100 # 0) \/ y % 400 = 0

DaysInYear(y) == IF IsLeap(y) THEN 366 ELSE 365

DaysInMonth(y, m) ==
    IF m = 2 THEN (IF IsLeap(y) THEN 29 ELSE 28)
    ELSE IF m \in {4, 6, 9, 11} THEN 30 ELSE 31

RECURSIVE DaysBeforeMonth(_, _)
DaysBeforeMonth(y, m) ==
    IF m = 1 THEN 0 ELSE DaysBeforeMonth(y, m - 1) + DaysInMonth(y, m - 1)

RECURSIVE DaysBeforeYear(_)
DaysBeforeYear(y) ==
    IF y = 2018 THEN 0
    ELSE IF y > 2018 THEN DaysBeforeYear(y - 1) + DaysInYear(y - 1)
    ELSE DaysBeforeYear(y + 1) - DaysInYear(y)

\* The day number of the date y-m-d.
Date(y, m, d) == DaysBeforeYear(y) + DaysBeforeMonth(y, m) + d - 1

RECURSIVE YearFrom(_, _)
YearFrom(n, y) ==
    IF n < DaysInYear(y) THEN y ELSE YearFrom(n - DaysInYear(y), y + 1)

\* date.year, date.month, date.day
year(n) == YearFrom(n, 2018)

dayOfYear(n) == n - DaysBeforeYear(year(n)) + 1

RECURSIVE MonthFrom(_, _, _)
MonthFrom(k, y, m) ==
    IF k < DaysInMonth(y, m) THEN m
    ELSE MonthFrom(k - DaysInMonth(y, m), y, m + 1)

month(n) == MonthFrom(dayOfYear(n) - 1, year(n), 1)

day(n) == dayOfYear(n) - DaysBeforeMonth(year(n), month(n))

\* date.weekday(): Monday is 0, Sunday is 6.
weekday(n) == ((n % 7) + 7) % 7

WeeksInYear(y) ==
    LET jan1 == weekday(Date(y, 1, 1))
    IN  IF jan1 = 3 \/ (IsLeap(y) /\ jan1 = 2) THEN 53 ELSE 52

\* date.isocalendar(): the ISO year and the ISO week number.
isocalendar(n) ==
    LET w == (dayOfYear(n) - (weekday(n) + 1) + 10) \div 7
    IN  IF w < 1 THEN <<year(n) - 1, WeeksInYear(year(n) - 1)>>
        ELSE IF w > WeeksInYear(year(n)) THEN <<year(n) + 1, 1>>
        ELSE <<year(n), w>>

\* Python's a // b for b > 0 (floor, also of a negative a).
FloorDiv(a, b) == IF a >= 0 THEN a \div b ELSE 0 - ((b - 1 - a) \div b)

(***************************************************************************)
(* Run parameters and the sets the inputs are drawn from.                  *)
(***************************************************************************)
None == <<>>

\* The four classes of StrategyFactory and the stand-alone script's class.
FactoryStrategies == {"rsi", "moving_average", "bollinger_bands", "dca"}

Strategies == FactoryStrategies \cup {"RSIAccumulationStrategy"}

\* "daily" stands for any value the scheduler does not recognise.
Frequencies == {"weekly", "monthly", "quarterly", "yearly", "daily"}

\* Indicator parameters of a run: the RSI period and buy threshold are the
\* test's, the other periods the shortest ones the indicators accept.
StrategyParams ==
    [rsi_period |-> 2, rsi_threshold |-> 25, rsi_sell_threshold |-> 70,
     fast_period |-> 1, slow_period |-> 2, bb_period |-> 2, bb_dev |-> 1]

InvestmentAmounts == {500}

InitialCash == {0, 10000}

\* Longest series explored.
MaxBars == 5

VARIABLES
    params,               \* run_backtest's / run_strategy's arguments
    data,                 \* the bars of the feed delivered so far
    self,                 \* the strategy object
    broker,               \* cerebro.broker
    steps,                \* the steps the handler took on the last bar, in order
    fired,                \* per bar delivered: was a contribution made on it
    performance_metrics,  \* BacktestEngine.performance_metrics
    phase,                \* "running" until stop() has been called
    twin,                 \* a second run of the same arguments, with both feeds
    engine                \* the BacktestEngine, the DataManager and the calls made

vars == <<params, data, self, broker, steps, fired, performance_metrics, phase, twin, engine>>

(***************************************************************************)
(* BaseStrategy._is_market_open and the period key.                        *)
(***************************************************************************)
\* BaseStrategy._is_market_open
_is_market_open(current_date) ==
    IF weekday(current_date) >= 5 THEN FALSE
    ELSE IF month(current_date) = 1 /\ day(current_date) = 1 THEN FALSE
    ELSE IF month(current_date) = 7 /\ day(current_date) = 4 THEN FALSE
    ELSE IF month(current_date) = 12 /\ day(current_date) = 25 THEN FALSE
    ELSE IF /\ month(current_date) = 11
            /\ weekday(current_date) = 3
            /\ (day(current_date) - 1) \div 7 + 1 = 4 THEN FALSE
    ELSE TRUE

\* The period key both schedulers compute for a bar's date.
\* The period key with a key per day for a frequency it does not know.
period_marker_by_day(investment_freq, current_date) ==
    IF investment_freq = "weekly"
    THEN <<year(current_date), isocalendar(current_date)[2]>>
    ELSE IF investment_freq = "monthly"
         THEN <<year(current_date), month(current_date)>>
    ELSE IF investment_freq = "quarterly"
         THEN <<year(current_date), (month(current_date) - 1) \div 3>>
    ELSE IF investment_freq = "yearly" THEN <<year(current_date)>>
    ELSE <<year(current_date), month(current_date), day(current_date)>>

period_marker(investment_freq, current_date) ==
    IF investment_freq = "weekly"
    THEN <<year(current_date), isocalendar(current_date)[2]>>
    ELSE IF investment_freq = "monthly"
         THEN <<year(current_date), month(current_date)>>
    ELSE IF investment_freq = "quarterly"
         THEN <<year(current_date), (month(current_date) - 1) \div 3>>
    ELSE IF investment_freq = "yearly" THEN <<year(current_date)>>
    ELSE <<year(current_date), month(current_date)>>

(***************************************************************************)
(* Indicators, computed from the closes delivered so far.  Averages are    *)
(* kept as integer numerators over a common denominator, so that every     *)
(* comparison the strategies make is exact.                                *)
(***************************************************************************)
Max(a, b) == IF a >= b THEN a ELSE b

RECURSIVE Pow(_, _)
Pow(b, e) == IF e = 0 THEN 1 ELSE b * Pow(b, e - 1)

close(d, i) == d[i].close

\* UpDay and DownDay of bar i (i >= 2).
upday(d, i) == Max(close(d, i) - close(d, i - 1), 0)

downday(d, i) == Max(close(d, i - 1) - close(d, i), 0)

\* The sum of the up moves (or of the down moves) of bars 2..n.
RECURSIVE moves_sum(_, _, _)
moves_sum(d, n, up) ==
    IF n < 2 THEN 0
    ELSE moves_sum(d, n - 1, up) + (IF up THEN upday(d, n) ELSE downday(d, n))

\* The smoothed moving averages of bt.indicators.RSI at bar n >= period + 1,
\* as <<maup, madown>> times period^(n - period): the seed is the plain
\* average of the first `period` moves, then avg = (avg*(period-1) + x)/period.
RECURSIVE smma(_, _, _)
smma(d, period, n) ==
    IF n = period + 1
    THEN <<moves_sum(d, n, TRUE), moves_sum(d, n, FALSE)>>
    ELSE LET prev  == smma(d, period, n - 1)
             scale == Pow(period, n - period - 1)
         IN  <<prev[1] * (period - 1) + upday(d, n) * scale,
               prev[2] * (period - 1) + downday(d, n) * scale>>

\* rs = maup / madown raises ZeroDivisionError when madown is 0 (safediv is
\* off): the RSI line exists on a series only if madown > 0 on every bar.
RECURSIVE rsi_defined(_, _)
rsi_defined(d, period) ==
    IF Len(d) < period + 1 THEN TRUE
    ELSE /\ smma(d, period, Len(d))[2] > 0
         /\ rsi_defined(SubSeq(d, 1, Len(d) - 1), period)

\* self.rsi[0] < threshold and self.rsi[0] > threshold on the last bar of d,
\* with rsi = 100 - 100 / (1 + maup / madown).
rsi_below(d, period, threshold) ==
    LET ma == smma(d, period, Len(d))
    IN  100 * ma[1] < threshold * (ma[1] + ma[2])

rsi_above(d, period, threshold) ==
    LET ma == smma(d, period, Len(d))
    IN  100 * ma[1] > threshold * (ma[1] + ma[2])

\* period times the simple moving average of the closes at bar n.
RECURSIVE sma_sum(_, _, _)
sma_sum(d, period, n) ==
    IF period = 0 THEN 0 ELSE close(d, n) + sma_sum(d, period - 1, n - 1)

\* fast SMA minus slow SMA at bar n, times fast_period * slow_period.
ma_diff(d, fast, slow, n) ==
    slow * sma_sum(d, fast, n) - fast * sma_sum(d, slow, n)

\* NonZeroDifference of bt.indicators.CrossOver: the last difference that
\* was not zero (the first one as it is).
RECURSIVE nzd(_, _, _, _)
nzd(d, fast, slow, n) ==
    IF n = Max(fast, slow) \/ ma_diff(d, fast, slow, n) # 0
    THEN ma_diff(d, fast, slow, n)
    ELSE nzd(d, fast, slow, n - 1)

\* self.crossover > 0 on the last bar of d.
crossover_up(d, fast, slow) ==
    /\ nzd(d, fast, slow, Len(d) - 1) < 0
    /\ ma_diff(d, fast, slow, Len(d)) > 0

\* self.data.close[0] <= self.bb.lines.bot[0] on the last bar of d, with
\* bot = mean - devfactor * stddev over the last `period` closes.
RECURSIVE sq_sum(_, _, _)
sq_sum(d, period, n) ==
    IF period = 0 THEN 0
    ELSE close(d, n) * close(d, n) + sq_sum(d, period - 1, n - 1)

close_at_or_below_bot(d, period, dev) ==
    LET n == Len(d)
        s == sma_sum(d, period, n)
        q == sq_sum(d, period, n)
        gap == s - period * close(d, n)
    IN  gap >= 0 /\ gap * gap >= dev * dev * (period * q - s * s)

\* The first bar (counted from 1) on which cerebro calls next(): the longest
\* minimum period of the strategy's indicators.
minperiod(strategy) ==
    IF strategy \in {"rsi", "RSIAccumulationStrategy"}
    THEN StrategyParams.rsi_period + 1
    ELSE IF strategy = "moving_average"
         THEN Max(StrategyParams.fast_period, StrategyParams.slow_period) + 1
    ELSE IF strategy = "bollinger_bands" THEN StrategyParams.bb_period
    ELSE 1

(***************************************************************************)
(* The broker (bt.Cerebro's default broker, commission 0.0005).  An order  *)
(* issued in next() is checked and executed in the broker cycle of the     *)
(* following bar, at that bar's open; cash passed to add_cash is credited  *)
(* at the end of that cycle.                                               *)
(***************************************************************************)
Abs(x) == IF x < 0 THEN 0 - x ELSE x

\* Ticks paid or received for `size` shares (negative: sold) at `price`,
\* commission included.
ticks(size, price) == size * price * 2000 + Abs(size) * price

\* BackBroker._execute of an order of signed size q on position p: the part
\* closing the position always executes, the part opening one only if the
\* cash left is not negative.  `pseudo` is the cash a pseudo-execution
\* returns: what would be left had the whole order executed.
execute(cash, p, q, price) ==
    LET closed == IF p * q >= 0 THEN 0
                  ELSE IF Abs(q) <= Abs(p) THEN q ELSE 0 - p
        opened == q - closed
        cash_closed == cash - ticks(closed, price)
        cash_all == cash_closed - ticks(opened, price)
    IN  IF opened = 0
        THEN [cash |-> cash_closed, position |-> p + closed, ok |-> TRUE,
              pseudo |-> cash_closed]
        ELSE IF cash_all < 0
        THEN [cash |-> cash_closed, position |-> p + closed, ok |-> FALSE,
              pseudo |-> cash_all]
        ELSE [cash |-> cash_all, position |-> p + q, ok |-> TRUE,
              pseudo |-> cash_all]

signed(o) == IF o.isbuy THEN o.size ELSE 0 - o.size

\* check_submitted: each submitted order is tried at its creation price on
\* the cash and position the orders before it leave; it is accepted or ends
\* Margin.
RECURSIVE check_submitted(_, _, _, _)
check_submitted(orders, i, cash, p) ==
    IF i > Len(orders) THEN orders
    ELSE IF orders[i].status # "Submitted"
    THEN check_submitted(orders, i + 1, cash, p)
    ELSE LET r == execute(cash, p, signed(orders[i]), orders[i].price)
         IN  check_submitted(
                 [orders EXCEPT ![i].status =
                      IF r.pseudo >= 0 THEN "Accepted" ELSE "Margin"],
                 i + 1, r.pseudo, p + signed(orders[i]))

\* The accepted market orders execute at the bar's open.
RECURSIVE try_exec(_, _, _, _)
try_exec(b, i, open, bar_no) ==
    IF i > Len(b.orders) THEN b
    ELSE IF b.orders[i].status # "Accepted" THEN try_exec(b, i + 1, open, bar_no)
    ELSE LET r == execute(b.cash, b.position, signed(b.orders[i]), open)
         IN  try_exec(
                 [b EXCEPT !.cash = r.cash, !.position = r.position,
                           !.orders[i].status =
                               IF r.ok THEN "Completed" ELSE "Margin",
                           !.orders[i].executed = IF r.ok THEN bar_no ELSE 0,
                           !.orders[i].xsize = r.position - b.position,
                           !.orders[i].xprice = open],
                 i + 1, open, bar_no)

RECURSIVE SumSeq(_)
SumSeq(q) == IF q = <<>> THEN 0 ELSE Head(q) + SumSeq(Tail(q))

\* BackBroker.next on the last bar of d, ending with _get_value.
broker_next(b, d) ==
    LET bar == d[Len(d)]
        b1 == [b EXCEPT !.orders =
                   check_submitted(b.orders, 1, b.cash, b.position)]
        b2 == try_exec(b1, 1, bar.open, Len(d))
        cash == b2.cash + 2000 * SumSeq(b2.cash_addition)
    IN  [b2 EXCEPT !.cash = cash, !.cash_addition = <<>>,
                   !.value = cash + b2.position * bar.close * 2000]

\* The broker value recomputed with the cash still queued by add_cash.
value_with_queued_cash(b) == b.value + 2000 * SumSeq(b.cash_addition)

\* broker.getvalue(): the value cached by the last _get_value.
getvalue(b) == b.value

\* broker.add_cash
add_cash(b, cash) == [b EXCEPT !.cash_addition = Append(@, cash)]

\* self.buy(size=...) and self.sell(size=...): a market order, submitted.
submit(b, isbuy, size, d) ==
    [b EXCEPT !.orders = Append(@,
        [isbuy |-> isbuy, size |-> size, created |-> Len(d),
         price |-> close(d, Len(d)), status |-> "Submitted", executed |-> 0,
         xsize |-> 0, xprice |-> 0])]

(***************************************************************************)
(* The strategies.  A handler is a chain of steps on a frame: the strategy *)
(* object, the broker, the steps taken so far on this bar and the value    *)
(* the last call returned.                                                 *)
(***************************************************************************)
\* A step of the handler, with what it saw of the strategy when it started.
seen(f, op, ret) ==
    [f EXCEPT !.ret = ret,
              !.steps = Append(@, [op |-> op, cash |-> f.self.accumulated_cash,
                                   position |-> f.self.current_position,
                                   has_position |-> f.self.has_position,
                                   sell_count |-> f.self.sell_count,
                                   investment_count |-> f.self.investment_count,
                                   ret |-> ret])]

_get_market_date(d) == d[Len(d)].date

\* BaseStrategy.add_cash_periodically
add_cash_periodically(f, d, investment_amount, investment_freq) ==
    LET current_date == _get_market_date(d)
        marker == period_marker(investment_freq, current_date)
    IN  IF ~_is_market_open(current_date)
        THEN seen(f, "add_cash_periodically", FALSE)
        ELSE IF f.self.last_period = None \/ marker # f.self.last_period
        THEN LET g == seen(f, "add_cash_periodically", TRUE)
             IN  [g EXCEPT !.broker = add_cash(@, investment_amount),
                           !.self.accumulated_cash = @ + investment_amount,
                           !.self.total_invested = @ + investment_amount,
                           !.self.last_period = marker]
        ELSE seen(f, "add_cash_periodically", FALSE)

\* invest_accumulated_cash buying one share more whenever cash is left over.
invest_rounding_up(f, d) ==
    LET price == close(d, Len(d))
        size == (f.self.accumulated_cash + price - 1) \div price
    IN  IF f.self.accumulated_cash > 0 /\ size > 0
        THEN LET g == seen(f, "invest", size * price)
             IN  [g EXCEPT !.broker = submit(@, TRUE, size, d),
                           !.self.accumulated_cash = @ - size * price,
                           !.self.investment_count = @ + 1,
                           !.self.current_position = @ + size]
        ELSE [f EXCEPT !.ret = 0]

\* invest_accumulated_cash buying one share when the cash buys none.
invest_at_least_one(f, d) ==
    LET price == close(d, Len(d))
        size == Max(f.self.accumulated_cash \div price, 1)
    IN  IF f.self.accumulated_cash > 0 /\ size > 0
        THEN LET g == seen(f, "invest", size * price)
             IN  [g EXCEPT !.broker = submit(@, TRUE, size, d),
                           !.self.accumulated_cash = @ - size * price,
                           !.self.investment_count = @ + 1,
                           !.self.current_position = @ + size]
        ELSE [f EXCEPT !.ret = 0]

\* BaseStrategy.invest_accumulated_cash
invest_accumulated_cash(f, d) ==
    LET price == close(d, Len(d))
        size == f.self.accumulated_cash \div price
    IN  IF f.self.accumulated_cash > 0 /\ size > 0
        THEN LET g == seen(f, "invest", size * price)
             IN  [g EXCEPT !.broker = submit(@, TRUE, size, d),
                           !.self.accumulated_cash = @ - size * price,
                           !.self.investment_count = @ + 1,
                           !.self.current_position = @ + size]
        ELSE [f EXCEPT !.ret = 0]

\* BaseStrategy.sell_position, called with the default portion of 1.0
sell_position(f, d) ==
    LET shares_to_sell == f.self.current_position
    IN  IF f.self.current_position > 0 /\ shares_to_sell > 0
        THEN LET g == seen(f, "sell_position",
                           shares_to_sell * close(d, Len(d)))
             IN  [g EXCEPT !.broker = submit(@, FALSE, shares_to_sell, d),
                           !.self.current_position = @ - shares_to_sell,
                           !.self.sell_count = @ + 1]
        ELSE [f EXCEPT !.ret = 0]

\* RSIStrategy.should_sell and RSIStrategy.should_invest
rsi_should_sell(f, d) ==
    /\ rsi_above(d, StrategyParams.rsi_period, StrategyParams.rsi_sell_threshold)
    /\ f.self.has_position

\* should_invest without the test of has_position.
rsi_oversold(f, d) ==
    rsi_below(d, StrategyParams.rsi_period, StrategyParams.rsi_threshold)

rsi_should_invest(f, d) ==
    /\ rsi_below(d, StrategyParams.rsi_period, StrategyParams.rsi_threshold)
    /\ ~f.self.has_position

\* The sell block of RSIStrategy._execute_strategy.
rsi_sold(g) == IF g.ret > 0 THEN [g EXCEPT !.self.has_position = FALSE] ELSE g

rsi_sell(f, d) ==
    IF rsi_should_sell(f, d)
    THEN rsi_sold(sell_position(seen(f, "should_sell", TRUE), d))
    ELSE seen(f, "should_sell", FALSE)

\* The buy block of RSIStrategy._execute_strategy.
rsi_bought(g, d, shares_to_buy, current_price) ==
    [g EXCEPT !.broker = submit(@, TRUE, shares_to_buy, d),
              !.self.accumulated_cash = @ - shares_to_buy * current_price,
              !.self.investment_count = @ + 1,
              !.self.current_position = @ + shares_to_buy,
              !.self.has_position = TRUE]

rsi_buy(f, d) ==
    LET current_price == close(d, Len(d))
        shares_to_buy == f.self.accumulated_cash \div current_price
    IN  IF ~rsi_should_invest(f, d) THEN seen(f, "should_invest", FALSE)
        ELSE IF f.self.accumulated_cash > 0 /\ shares_to_buy > 0
        THEN rsi_bought(seen(seen(f, "should_invest", TRUE), "invest",
                             shares_to_buy * current_price),
                        d, shares_to_buy, current_price)
        ELSE seen(f, "should_invest", TRUE)

\* RSIStrategy._execute_strategy with the buy block moved before the sell block.
rsi_buy_before_sell(f, d) ==
    rsi_sell(rsi_buy(add_cash_periodically(f, d, params.investment_amount,
                                           params.investment_freq), d), d)

\* RSIStrategy._execute_strategy: funding, then the sell, then the buy.
rsi_execute_strategy(f, d) ==
    rsi_buy(rsi_sell(add_cash_periodically(f, d, params.investment_amount,
                                           params.investment_freq), d), d)

\* `if <signal>: self.invest_accumulated_cash()` of the strategies below.
invest_if(f, d, signal) ==
    IF signal THEN invest_accumulated_cash(seen(f, "should_invest", TRUE), d)
    ELSE seen(f, "should_invest", FALSE)

\* MovingAverageStrategy._execute_strategy
ma_execute_strategy(f, d) ==
    invest_if(add_cash_periodically(f, d, params.investment_amount,
                                    params.investment_freq), d,
              crossover_up(d, StrategyParams.fast_period,
                           StrategyParams.slow_period))

\* BollingerBandsStrategy._execute_strategy
bb_execute_strategy(f, d) ==
    invest_if(add_cash_periodically(f, d, params.investment_amount,
                                    params.investment_freq), d,
              close_at_or_below_bot(d, StrategyParams.bb_period,
                                    StrategyParams.bb_dev))

\* DollarCostAveragingStrategy._execute_strategy: it buys when cash was
\* added or is left over.
dca_invest_when_funded(f, d) == invest_if(f, d, f.ret)

dca_invest(f, d) == invest_if(f, d, f.ret \/ f.self.accumulated_cash > 0)

dca_execute_strategy(f, d) ==
    dca_invest(add_cash_periodically(f, d, params.investment_amount,
                                     params.investment_freq), d)

\* BaseStrategy._execute_strategy as the factory's four classes override it.
_execute_strategy(f, d) ==
    IF params.strategy_name = "rsi" THEN rsi_execute_strategy(f, d)
    ELSE IF params.strategy_name = "moving_average"
    THEN ma_execute_strategy(f, d)
    ELSE IF params.strategy_name = "bollinger_bands"
    THEN bb_execute_strategy(f, d)
    ELSE dca_execute_strategy(f, d)

\* BaseStrategy.next: the portfolio value is recorded, then the strategy runs.
base_next(f, d) ==
    _execute_strategy(
        [f EXCEPT !.self.portfolio_values = Append(@, getvalue(f.broker)),
                  !.self.dates = Append(@, _get_market_date(d))], d)

\* RSIAccumulationStrategy.next: its own scheduler (no market-open check),
\* then the buy.
accumulation_add_cash(f, d) ==
    LET marker == period_marker(params.investment_freq, d[Len(d)].date)
    IN  IF f.self.last_period = None \/ marker # f.self.last_period
        THEN [seen(f, "add_cash_periodically", TRUE) EXCEPT
                 !.self.last_period = marker,
                 !.broker = add_cash(@, params.investment_amount),
                 !.self.accumulated_cash = @ + params.investment_amount,
                 !.self.total_invested = @ + params.investment_amount]
        ELSE seen(f, "add_cash_periodically", FALSE)

accumulation_bought(g, d, size) ==
    [g EXCEPT !.broker = submit(@, TRUE, size, d),
              !.self.accumulated_cash = @ - size * close(d, Len(d))]

accumulation_buy(f, d) ==
    LET size == f.self.accumulated_cash \div close(d, Len(d))
    IN  IF ~(/\ rsi_below(d, StrategyParams.rsi_period,
                          StrategyParams.rsi_threshold)
             /\ f.self.accumulated_cash > 0)
        THEN seen(f, "should_invest", FALSE)
        ELSE IF size > 0
        THEN accumulation_bought(
                 seen(seen(f, "should_invest", TRUE), "invest",
                      size * close(d, Len(d))), d, size)
        ELSE seen(f, "should_invest", TRUE)

accumulation_next(f, d) == accumulation_buy(accumulation_add_cash(f, d), d)

strategy_next(f, d) ==
    IF params.strategy_name = "RSIAccumulationStrategy"
    THEN accumulation_next(f, d) ELSE base_next(f, d)

(***************************************************************************)
(* The engine's closed-form count of funding periods.                      *)
(***************************************************************************)
\* The periods of BacktestEngine._calculate_performance_metrics.
periods(investment_freq, start_dt, end_dt) ==
    LET months == (year(end_dt) - year(start_dt)) * 12
                  + (month(end_dt) - month(start_dt))
    IN  IF investment_freq = "weekly" THEN FloorDiv(end_dt - start_dt, 7) + 1
        ELSE IF investment_freq = "monthly" THEN months + 1
        ELSE IF investment_freq = "quarterly"
        THEN (year(end_dt) - year(start_dt)) * 4
             + FloorDiv(month(end_dt) - month(start_dt), 3) + 1
        ELSE IF investment_freq = "yearly"
        THEN year(end_dt) - year(start_dt) + 1
        ELSE months + 1

\* The part of an execution of signed size q that closes a position p.
closing(p, q) ==
    IF p * q >= 0 THEN 0 ELSE IF Abs(q) <= Abs(p) THEN q ELSE 0 - p

\* TradeAnalyzer: a trade opens when the position leaves 0 and closes when
\* it is back at 0 (an execution through 0 closes one trade and opens the
\* next); `paid` is what the open trade has cost so far, commission
\* included, and a closed trade is won when its pnlcomm = -paid >= 0.
RECURSIVE trades(_, _, _, _, _)
trades(orders, i, p, paid, r) ==
    IF i > Len(orders) THEN r
    ELSE IF orders[i].xsize = 0 THEN trades(orders, i + 1, p, paid, r)
    ELSE IF closing(p, orders[i].xsize) # 0
            /\ p + closing(p, orders[i].xsize) = 0
    THEN trades(orders, i + 1, p + orders[i].xsize,
                ticks(orders[i].xsize - closing(p, orders[i].xsize),
                      orders[i].xprice),
                IF paid + ticks(closing(p, orders[i].xsize),
                                orders[i].xprice) <= 0
                THEN [r EXCEPT !.won = @ + 1] ELSE [r EXCEPT !.lost = @ + 1])
    ELSE trades(orders, i + 1, p + orders[i].xsize,
                paid + ticks(orders[i].xsize, orders[i].xprice), r)

trade_analysis(b) == trades(b.orders, 1, 0, 0, [won |-> 0, lost |-> 0])

\* win_rate = winning_trades / total_trades * 100, as a fraction.
win_rate(winning_trades, total_trades) ==
    IF total_trades > 0
    THEN [num |-> winning_trades * 100, den |-> total_trades]
    ELSE [num |-> 0, den |-> 1]

_calculate_performance_metrics(b, strategy, initial_cash, amount, freq, start_date, end_date) ==
    [final_value |-> getvalue(b),
     total_invested |->
         initial_cash + periods(freq, start_date, end_date) * amount,
     net_profit |->
         getvalue(b)
         - 2000 * (initial_cash + periods(freq, start_date, end_date) * amount),
     buy_trades |-> strategy.investment_count,
     sell_trades |-> strategy.sell_count,
     total_trades |-> strategy.investment_count + strategy.sell_count,
     winning_trades |-> trade_analysis(b).won,
     losing_trades |-> trade_analysis(b).lost,
     win_rate_pct |-> win_rate(trade_analysis(b).won,
                               strategy.investment_count + strategy.sell_count),
     end_date |-> end_date]

(***************************************************************************)
(* The run: cerebro.run() delivers the bars one by one; on each it runs    *)
(* the broker cycle and then the strategy's prenext() (while an indicator  *)
(* is still warming up) or next(); stop() ends the run.                    *)
(***************************************************************************)
strategy_init ==
    [total_invested |-> 0, accumulated_cash |-> 0, last_period |-> None,
     portfolio_values |-> <<>>, dates |-> <<>>, investment_count |-> 0,
     sell_count |-> 0, current_position |-> 0, has_position |-> FALSE]

broker_init(initial_cash) ==
    [cash |-> initial_cash * 2000, position |-> 0, cash_addition |-> <<>>,
     orders |-> <<>>, value |-> initial_cash * 2000]

\* The state when cerebro.run() starts on a run with arguments p.
Start(p) ==
    /\ params = p
    /\ data = <<>>
    /\ self = strategy_init
    /\ broker = broker_init(p.initial_cash)
    /\ steps = <<>>
    /\ fired = <<>>
    /\ performance_metrics = None
    /\ phase = "running"
    /\ twin = None
    /\ engine = None

\* A series on which the indicators can be computed: cerebro computes them
\* over the whole feed before the first bar, and the RSI raises otherwise.
series_ok(d) ==
    IF params.strategy_name \in {"rsi", "RSIAccumulationStrategy"}
    THEN rsi_defined(d, StrategyParams.rsi_period)
    ELSE TRUE

\* prenext() running the contribution and the buy on a warm-up bar.
prenext_investing(bar) ==
    LET d == Append(data, bar)
        f == dca_execute_strategy(
                 [self |-> self, broker |-> broker_next(broker, d),
                  steps |-> <<>>, ret |-> FALSE], d)
    IN  /\ phase = "running"
        /\ Len(d) < minperiod(params.strategy_name)
        /\ series_ok(d)
        /\ data' = d
        /\ self' = f.self
        /\ broker' = f.broker
        /\ steps' = f.steps
        /\ fired' = Append(fired, f.steps[1].ret)
        /\ UNCHANGED <<params, performance_metrics, phase, twin, engine>>

\* A bar inside the warm-up window: the strategy's prenext() does nothing.
prenext(bar) ==
    LET d == Append(data, bar)
    IN  /\ phase = "running"
        /\ Len(d) < minperiod(params.strategy_name)
        /\ series_ok(d)
        /\ data' = d
        /\ broker' = broker_next(broker, d)
        /\ steps' = <<>>
        /\ fired' = Append(fired, FALSE)
        /\ UNCHANGED <<params, self, performance_metrics, phase, twin, engine>>

\* A bar on which the strategy's next() runs.
next(bar) ==
    LET d == Append(data, bar)
        f == strategy_next([self |-> self, broker |-> broker_next(broker, d),
                            steps |-> <<>>, ret |-> FALSE], d)
    IN  /\ phase = "running"
        /\ Len(d) >= minperiod(params.strategy_name)
        /\ series_ok(d)
        /\ data' = d
        /\ self' = f.self
        /\ broker' = f.broker
        /\ steps' = f.steps
        /\ fired' = Append(fired, f.steps[1].ret)
        /\ UNCHANGED <<params, performance_metrics, phase, twin, engine>>

\* The end of the feed: stop(), and the engine's metrics for the classes it
\* runs, computed from the start and end dates it was called with.
stop(end_date) ==
    /\ phase = "running"
    /\ data # <<>>
    /\ end_date >= data[Len(data)].date
    /\ end_date > params.start_date
    /\ phase' = "stopped"
    /\ steps' = <<>>
    /\ performance_metrics' =
           IF params.strategy_name \in FactoryStrategies
           THEN _calculate_performance_metrics(
                    broker, self, params.initial_cash, params.investment_amount,
                    params.investment_freq, params.start_date, end_date)
           ELSE performance_metrics
    /\ UNCHANGED <<params, data, self, broker, fired, twin, engine>>

(***************************************************************************)
(* Spec: daily series (one bar per calendar day, open = close, as in the   *)
(* test and in the generated data) with every close drawn from Closes.     *)
(***************************************************************************)
Closes == {150, 250, 600}

StartDates == {Date(2018, 1, 29), Date(2018, 1, 30)}

Runs(starts, frequencies, cash) ==
    [strategy_name : Strategies, investment_freq : frequencies,
     investment_amount : InvestmentAmounts, initial_cash : cash,
     start_date : starts]

Init == \E p \in Runs(StartDates, Frequencies, InitialCash) : Start(p)

NextDay == IF data = <<>> THEN params.start_date ELSE data[Len(data)].date + 1

Bars(dates, closes) == {[date |-> t, open |-> c, close |-> c] : t \in dates, c \in closes}

Next ==
    \/ /\ Len(data) < MaxBars
       /\ \E bar \in Bars({NextDay}, Closes) : prenext(bar)
    \/ /\ Len(data) < MaxBars
       /\ \E bar \in Bars({NextDay}, Closes) : next(bar)
    \/ stop(NextDay)

Spec == Init /\ [][Next]_vars

(***************************************************************************)
(* SpecCal: series over the calendar's corner dates (holidays, a weekend,  *)
(* the turn of the year) with gaps, on a price that alternates.            *)
(***************************************************************************)
CalDates ==
    {Date(2018, 1, 1), Date(2018, 1, 2),
     Date(2018, 7, 3), Date(2018, 7, 4), Date(2018, 7, 5),
     Date(2018, 11, 22), Date(2018, 11, 23),
     Date(2018, 12, 25), Date(2018, 12, 28), Date(2018, 12, 29),
     Date(2018, 12, 31), Date(2019, 1, 1), Date(2019, 1, 2)}

\* Longest series explored over the calendar.
MaxCalBars == 4

LaterDates ==
    {t \in CalDates : /\ t >= params.start_date
                      /\ data # <<>> => t > data[Len(data)].date}

CalCloses == IF Len(data) % 2 = 0 THEN {250} ELSE {150}

InitCal == \E p \in Runs(CalDates, Frequencies, {10000}) : Start(p)

NextCal ==
    \/ /\ Len(data) < MaxCalBars
       /\ \E bar \in Bars(LaterDates, CalCloses) : prenext(bar)
    \/ /\ Len(data) < MaxCalBars
       /\ \E bar \in Bars(LaterDates, CalCloses) : next(bar)
    \/ /\ data # <<>>
       /\ \E end_date \in LaterDates \cup {data[Len(data)].date} : stop(end_date)

SpecCal == InitCal /\ [][NextCal]_vars

(***************************************************************************)
(* What the properties below speak about.                                  *)
(***************************************************************************)
\* The bars next() has handled, and those of them on open-market dates.
handled == {i \in 1..Len(data) : i >= minperiod(params.strategy_name)}

handled_open == {i \in handled : _is_market_open(data[i].date)}

key(i) == period_marker(params.investment_freq, data[i].date)

\* The last bar before i on which a contribution was made (0: none).
last_fired(i) ==
    LET before == {k \in 1..(i - 1) : fired[k]}
    IN  IF before = {} THEN 0 ELSE CHOOSE k \in before : \A l \in before : l <= k

\* The first bar after i that passes the market-open check (0: none yet).
next_open(i) ==
    LET after == {j \in (i + 1)..Len(data) : _is_market_open(data[j].date)}
    IN  IF after = {} THEN 0 ELSE CHOOSE j \in after : \A l \in after : j <= l

contributions == Cardinality({i \in 1..Len(fired) : fired[i]})

C2_FirstBarContributes ==
    (/\ params.strategy_name \in FactoryStrategies
     /\ Len(data) = 1
     /\ _is_market_open(data[1].date))
        => /\ self.total_invested = params.investment_amount
           /\ self.last_period = key(1)

\* C3: with weekly frequency two bars of the same ISO week never both make a
\* contribution, also when the week straddles the turn of the year.
C3_OncePerIsoWeek ==
    params.investment_freq = "weekly"
        => \A i, j \in 1..Len(data) :
               (i < j /\ isocalendar(data[i].date) = isocalendar(data[j].date))
                   => ~(fired[i] /\ fired[j])

\* C4: a bar the market-open check rejects makes no contribution, and when its
\* key differs from last_period the next bar that passes the check makes it.
C4_DeferredToNextOpenBar ==
    params.strategy_name \in FactoryStrategies
        => \A i \in handled \ handled_open :
               /\ ~fired[i]
               /\ (/\ next_open(i) # 0
                   /\ \/ last_fired(i) = 0
                      \/ key(i) # key(last_fired(i)))
                      => fired[next_open(i)]

\* C5: the total_invested the engine reports is the initial cash plus the
\* contributions the strategy made during the run.
C5_MetricMatchesContributions ==
    (phase = "stopped" /\ performance_metrics # None)
        => performance_metrics.total_invested
               = params.initial_cash + self.total_invested

\* C6: RSIAccumulationStrategy with monthly frequency ends a run with one
\* contribution for each (year, month) the series covers, whatever the
\* broker's initial cash and whatever it bought.
C6_MonthlyTotalCountsMonths ==
    (/\ params.strategy_name = "RSIAccumulationStrategy"
     /\ params.investment_freq = "monthly"
     /\ phase = "stopped"
     /\ handled # {})
        => self.total_invested
               = params.investment_amount
                 * Cardinality({<<year(data[i].date), month(data[i].date)>> :
                                    i \in 1..Len(data)})

C8_SellCreditsProceeds ==
    \A i \in 1..(Len(steps) - 1) :
        steps[i].op = "sell_position"
            => /\ steps[i + 1].position = 0
               /\ steps[i + 1].sell_count = steps[i].sell_count + 1
               /\ steps[i + 1].cash = steps[i].cash + steps[i].ret

rank(op) ==
    CASE op = "add_cash_periodically" -> 1
      [] op = "should_sell" -> 2
      [] op = "sell_position" -> 3
      [] op = "should_invest" -> 4
      [] op = "invest" -> 5

sold == \E i \in 1..Len(steps) : steps[i].op = "sell_position"

\* C9: on every bar the handler funds first, then evaluates and makes the
\* sell, then evaluates and makes the buy; the buy is evaluated on the cash
\* the funding left and on the position the sell left.
C9_FundingSellBuyOrder ==
    steps # <<>>
        => /\ steps[1].op = "add_cash_periodically"
           /\ \A i, j \in 1..Len(steps) :
                  i < j => rank(steps[i].op) < rank(steps[j].op)
           /\ \A j \in 1..Len(steps) :
                  steps[j].op = "should_invest"
                      => /\ steps[j].cash
                                = steps[1].cash
                                  + (IF steps[1].ret
                                     THEN params.investment_amount ELSE 0)
                         /\ steps[j].position
                                = (IF sold THEN 0 ELSE steps[1].position)

\* A bar of the RSI strategy with a contribution, a sell and the buy
\* evaluation after them.
C9_FundedSoldThenEvaluated ==
    /\ steps # <<>>
    /\ steps[1].ret
    /\ sold
    /\ steps[Len(steps)].op = "should_invest"
    /\ steps[Len(steps)].position = 0
    /\ steps[1].position > 0

\* C10: a buy is for floor(cash / close) whole shares, it leaves the cash
\* less their cost, and what it leaves is less than one share's price.
C10_WholeSharesFromCash ==
    (steps # <<>> /\ steps[Len(steps)].op = "invest")
        => LET cash_before == steps[Len(steps)].cash
               order == broker.orders[Len(broker.orders)]
               price == data[Len(data)].close
           IN  /\ order.isbuy /\ order.created = Len(data)
               /\ order.size \in Nat \ {0}
               /\ order.size * price <= cash_before
               /\ cash_before < (order.size + 1) * price
               /\ self.accumulated_cash = cash_before - order.size * price
               /\ 0 <= self.accumulated_cash
               /\ self.accumulated_cash < price

\* A buy by the RSI strategy's own path that leaves cash over.
C10_BoughtWithCashLeft ==
    /\ params.strategy_name = "rsi"
    /\ steps # <<>>
    /\ steps[Len(steps)].op = "invest"
    /\ self.accumulated_cash > 0
    /\ self.current_position > 0

\* The orders issued on the last bar delivered.
issued == {k \in 1..Len(broker.orders) : broker.orders[k].created = Len(data)}

\* C11: when the buy signal is true and the cash buys less than one share,
\* the buy step issues no order and leaves accumulated_cash, current_position,
\* investment_count and has_position as they were.
C11_NoShareNoBuy ==
    \A j \in 1..Len(steps) :
        (/\ steps[j].op = "should_invest"
         /\ steps[j].ret
         /\ steps[j].cash < data[Len(data)].close)
            => /\ j = Len(steps)
               /\ \A k \in issued : ~broker.orders[k].isbuy
               /\ self.accumulated_cash = steps[j].cash
               /\ self.current_position = steps[j].position
               /\ self.investment_count = steps[j].investment_count
               /\ self.has_position = steps[j].has_position

\* A bar with the buy signal on and cash that is short of one share.
C11_SignalWithShortCash ==
    /\ steps # <<>>
    /\ steps[Len(steps)].op = "should_invest"
    /\ steps[Len(steps)].ret
    /\ steps[Len(steps)].cash > 0
    /\ steps[Len(steps)].cash < data[Len(data)].close

\* C12: the value the handler appends to the equity curve for a bar is the
\* cash after that bar's funding plus the shares held at that bar's close
\* (an order issued on the bar at its close changes neither side).
C12_EquityIdentity ==
    (/\ params.strategy_name \in FactoryStrategies
     /\ Len(data) \in handled)
        => self.portfolio_values[Len(self.portfolio_values)]
               = broker.cash + 2000 * SumSeq(broker.cash_addition)
                 + broker.position * data[Len(data)].close * 2000

\* C13: the equity curve has one entry per bar delivered: portfolio_values and
\* dates are as long as the series so far, and the dates increase strictly.
C13_OneEntryPerBar ==
    params.strategy_name \in FactoryStrategies
        => /\ Len(self.portfolio_values) = Len(self.dates)
           /\ Len(self.dates) = Len(data)
           /\ \A i, j \in 1..Len(self.dates) :
                  i < j => self.dates[i] < self.dates[j]

\* C14: when a run ends, the final_value metric is the last value of the
\* equity curve, also when the last bar made a contribution or issued an order.
C14_FinalValueIsLastCurveValue ==
    (/\ phase = "stopped"
     /\ performance_metrics # None
     /\ self.portfolio_values # <<>>)
        => performance_metrics.final_value
               = self.portfolio_values[Len(self.portfolio_values)]

C14_EndedOnContributionAndOrder ==
    /\ phase = "stopped"
    /\ performance_metrics # None
    /\ self.portfolio_values # <<>>
    /\ fired[Len(fired)]
    /\ issued # {}

\* C15: the RSI strategy holds a position exactly while has_position is set,
\* buys only from an empty position and sells only a held one, so that the
\* buys and sells alternate starting with a buy, and no bar both sells and buys.
C15_RsiBuysFlatSellsHeld ==
    params.strategy_name = "rsi"
        => /\ self.has_position <=> self.current_position > 0
           /\ self.investment_count - self.sell_count
                  = IF self.has_position THEN 1 ELSE 0
           /\ \A j \in 1..Len(steps) :
                  /\ steps[j].op = "invest"
                         => /\ steps[j].position = 0
                            /\ ~steps[j].has_position
                            /\ steps[j].investment_count = steps[j].sell_count
                  /\ steps[j].op = "sell_position"
                         => /\ steps[j].position > 0
                            /\ steps[j].has_position
                            /\ steps[j].investment_count
                                   = steps[j].sell_count + 1
           /\ ~(sold /\ \E j \in 1..Len(steps) : steps[j].op = "invest")
           /\ \A k \in issued : \A l \in issued :
                  broker.orders[k].isbuy = broker.orders[l].isbuy

C15_BoughtThenSold ==
    /\ params.strategy_name = "rsi"
    /\ sold
    /\ self.investment_count = 1
    /\ self.sell_count = 1
    /\ ~self.has_position

NeverSells == {"dca", "moving_average", "bollinger_bands"}

MaxPairBars == 4

PairCloses == {150, 600}

Feeds(start) ==
    {[k \in 1..MaxPairBars |->
         [date |-> start + k - 1, open |-> c[k], close |-> c[k]]] :
     c \in [1..MaxPairBars -> PairCloses]}

\* A line buffer that also shows the bar after the one being delivered.
window_ahead(feed, i) == SubSeq(feed, 1, IF i < Len(feed) THEN i + 1 ELSE i)

\* What the line buffers show while bar i is delivered: bars 1..i.
window(feed, i) == SubSeq(feed, 1, i)

\* The first run is the one in the variables.
first_run ==
    [data |-> data, self |-> self, broker |-> broker, steps |-> steps,
     fired |-> fired]

warmup_bar(r, bar, d) ==
    [r EXCEPT !.data = Append(@, bar), !.broker = broker_next(@, d),
              !.steps = <<>>, !.fired = Append(@, FALSE)]

handled_bar(r, bar, f) ==
    [data |-> Append(r.data, bar), self |-> f.self, broker |-> f.broker,
     steps |-> f.steps, fired |-> Append(r.fired, f.steps[1].ret)]

\* cerebro delivering bar to run r, the line buffers showing d: the broker
\* cycle, then prenext() or next().
deliver_seen(r, bar, d) ==
    IF Len(r.data) + 1 < minperiod(params.strategy_name)
    THEN warmup_bar(r, bar, d)
    ELSE handled_bar(r, bar,
             strategy_next([self |-> r.self, broker |-> broker_next(r.broker, d),
                            steps |-> <<>>, ret |-> FALSE], d))

deliver(r, feed) ==
    deliver_seen(r, feed[Len(r.data) + 1], window(feed, Len(r.data) + 1))

feed_ok(feed) == \A k \in 1..Len(feed) : series_ok(SubSeq(feed, 1, k))

InitPair ==
    \E p \in Runs(StartDates, Frequencies, InitialCash) :
        \E feed \in Feeds(p.start_date), other_feed \in Feeds(p.start_date) :
            /\ params = p
            /\ feed_ok(feed)
            /\ feed_ok(other_feed)
            /\ data = <<>>
            /\ self = strategy_init
            /\ broker = broker_init(p.initial_cash)
            /\ steps = <<>>
            /\ fired = <<>>
            /\ performance_metrics = None
            /\ phase = "running"
            /\ engine = None
            /\ twin = [feed |-> feed, other_feed |-> other_feed,
                       run |-> [data |-> <<>>, self |-> strategy_init,
                                broker |-> broker_init(p.initial_cash),
                                steps |-> <<>>, fired |-> <<>>]]

\* The next bar of each feed is delivered to its run.
pair_bar ==
    /\ Len(data) < Len(twin.feed)
    /\ LET r == deliver(first_run, twin.feed)
       IN  /\ data' = r.data
           /\ self' = r.self
           /\ broker' = r.broker
           /\ steps' = r.steps
           /\ fired' = r.fired
    /\ twin' = [twin EXCEPT !.run = deliver(@, twin.other_feed)]
    /\ UNCHANGED <<params, performance_metrics, phase, engine>>

NextPair == pair_bar

SpecPair == InitPair /\ [][NextPair]_vars

\* The two feeds agree on their first n bars.
agree(n) == \A k \in 1..n : twin.feed[k] = twin.other_feed[k]

MaxCalls == 2

\* The fewest rows fetch_data accepts after cleaning.
MinRows == 10

\* pd.to_datetime('1990-01-01')
FloorDate == Date(1990, 1, 1)

\* The day of datetime.now().
Nows == {Date(2018, 2, 5), Date(2018, 2, 10)}

\* Date ranges asked for: two weeks, one week, an empty one, one from 1989.
Ranges ==
    {<<Date(2018, 1, 29), Date(2018, 2, 9)>>,
     <<Date(2018, 1, 29), Date(2018, 2, 2)>>,
     <<Date(2018, 1, 29), Date(2018, 1, 29)>>,
     <<Date(1989, 12, 29), Date(2018, 2, 9)>>}

\* The strategy names asked for: the factory's, and one it does not know.
CallStrategies == FactoryStrategies \cup {"buy_and_hold"}

Calls ==
    {[symbol |-> "SPY", strategy_name |-> s, investment_freq |-> "weekly",
      investment_amount |-> 500, initial_cash |-> 10000,
      start_date |-> r[1], end_date |-> r[2]] :
     s \in CallStrategies, r \in Ranges}
    \cup {[symbol |-> "QQQ", strategy_name |-> "dca",
           investment_freq |-> "weekly", investment_amount |-> 500,
           initial_cash |-> 10000, start_date |-> Date(2018, 1, 29),
           end_date |-> Date(2018, 2, 9)]}

\* StrategyFactory.create_strategy: TRUE when it returns the class, FALSE
\* when it raises ValueError("Unknown strategy: ...").
create_strategy(strategy_name) == strategy_name \in FactoryStrategies

\* What the network does to one fetch_data: the download answers with the
\* rows, is rate limited, or fails otherwise; pickling the result for the
\* cache works or not; a cooldown recorded before has elapsed or not.
Replies ==
    [kind : {"rows", "rate_limit", "error"}, saved : BOOLEAN, elapsed : BOOLEAN]

\* validate_date_range accepting a range of one day.
validate_nonempty_range(start_date, end_date, now) ==
    ~(start_date > end_date \/ start_date < FloorDate \/ end_date > now)

\* DataManager.validate_date_range: TRUE when it returns True, FALSE when it
\* raises ValueError.
validate_date_range(start_date, end_date, now) ==
    ~(start_date >= end_date \/ start_date < FloorDate \/ end_date > now)

\* pd.bdate_range: the Mondays to Fridays from start to end.
RECURSIVE bdate_range(_, _)
bdate_range(start, end) ==
    IF start > end THEN <<>>
    ELSE (IF weekday(start) < 5 THEN <<start>> ELSE <<>>)
         \o bdate_range(start + 1, end)

\* The closes of the symbol's history, and those the seeded generator draws.
RealPrices == <<600, 150, 150, 600, 250, 150, 600, 150, 250, 600>>

MockPrices == <<250, 150, 250, 600, 150, 150, 250, 600, 600, 150>>

bars_of(dates, prices) ==
    [k \in 1..Len(dates) |->
        [date |-> dates[k], open |-> prices[((k - 1) % Len(prices)) + 1],
         close |-> prices[((k - 1) % Len(prices)) + 1]]]

\* yf.download answering, cleaned by _clean_and_standardize_data.
download(symbol, start_date, end_date) ==
    bars_of(bdate_range(start_date, end_date), RealPrices)

generate_mock_data(symbol, start_date, end_date) ==
    bars_of(bdate_range(start_date, end_date), MockPrices)

\* A cache file name made of the symbol and the start date only.
key_without_end(symbol, start_date, end_date) == <<symbol, start_date>>

\* DataManager._get_cache_key: "{symbol}_{start_date}_{end_date}.pkl".  The
\* symbols and dates used here hold no "_", so the name splits back into its
\* three parts in one way only.
_get_cache_key(symbol, start_date, end_date) == <<symbol, start_date, end_date>>

cache_key(a) == _get_cache_key(a.symbol, a.start_date, a.end_date)

\* DataManager._load_from_cache: the file of that name, if there is one.
_load_from_cache(cache, a) == {c \in cache : c.key = cache_key(a)}

\* DataManager._save_to_cache: the file of that name, written anew.
_save_to_cache(cache, a, rows) ==
    {c \in cache : c.key # cache_key(a)} \cup {[key |-> cache_key(a), data |-> rows]}

\* fetch_data raising ValueError.
fetch_failed(e, a, cooling, insufficient, network) ==
    [ok |-> FALSE, data |-> <<>>, network |-> network,
     cooldown |-> IF cooling THEN e.cooldown \cup {a.symbol}
                  ELSE e.cooldown \ {a.symbol},
     cache |-> e.cache, insufficient |-> insufficient]

\* fetch_data returning the rows the provider sent.
fetch_downloaded(e, a, rows, saved) ==
    [ok |-> TRUE, data |-> rows, network |-> TRUE,
     cooldown |-> e.cooldown \ {a.symbol},
     cache |-> IF saved THEN _save_to_cache(e.cache, a, rows) ELSE e.cache,
     insufficient |-> FALSE]

\* DataManager.fetch_data under the reply of the network: the rows (ok) or
\* ValueError, whether the network was called, the cooldowns and the cache
\* it leaves, and whether it found fewer than MinRows rows.
fetch_data(e, a, reply) ==
    IF _load_from_cache(e.cache, a) # {}
    THEN [ok |-> TRUE,
          data |-> (CHOOSE c \in _load_from_cache(e.cache, a) : TRUE).data,
          network |-> FALSE, cooldown |-> e.cooldown, cache |-> e.cache,
          insufficient |-> FALSE]
    ELSE IF a.symbol \in e.cooldown /\ ~reply.elapsed
    THEN fetch_failed(e, a, TRUE, FALSE, FALSE)
    ELSE IF reply.kind = "rate_limit"
    THEN fetch_failed(e, a, TRUE, FALSE, TRUE)
    ELSE IF reply.kind = "error"
    THEN fetch_failed(e, a, FALSE, FALSE, TRUE)
    ELSE IF Len(download(a.symbol, a.start_date, a.end_date)) < MinRows
    THEN fetch_failed(e, a, FALSE, TRUE, TRUE)
    ELSE fetch_downloaded(e, a, download(a.symbol, a.start_date, a.end_date),
                          reply.saved)

\* BacktestEngine.__init__, and the DataManager as the import leaves it.
engine_init(now) ==
    [now |-> now, used |-> FALSE, portfolio_values |-> <<>>, dates |-> <<>>,
     cooldown |-> {}, cache |-> {}, feed |-> <<>>, data_source |-> "real",
     insufficient |-> FALSE, fetches |-> 0, mock |-> FALSE, returned |-> <<>>]

InitEngine ==
    \E now \in Nows :
        /\ params = None
        /\ data = <<>>
        /\ self = None
        /\ broker = None
        /\ steps = <<>>
        /\ fired = <<>>
        /\ performance_metrics = None
        /\ phase = "idle"
        /\ twin = None
        /\ engine = engine_init(now)

\* A new BacktestEngine for the next call.
__init__ ==
    /\ phase = "idle"
    /\ engine.used
    /\ Len(engine.returned) < MaxCalls
    /\ performance_metrics' = None
    /\ engine' = [engine EXCEPT !.used = FALSE, !.portfolio_values = <<>>,
                                !.dates = <<>>]
    /\ UNCHANGED <<params, data, self, broker, steps, fired, phase, twin>>

\* What a call that raised leaves for its caller.
raised(a) ==
    [args |-> a, outcome |-> "ValueError", reused |-> engine.used,
     feed |-> <<>>, data_source |-> "none", insufficient |-> FALSE,
     fetches |-> 0, mock |-> FALSE, bars |-> 0, metrics |-> None,
     chart |-> None]

\* A run_backtest that empties the engine's results before it checks its
\* arguments.
run_backtest_clearing(a) ==
    /\ phase = "idle"
    /\ Len(engine.returned) < MaxCalls
    /\ performance_metrics' = None
    /\ IF /\ validate_date_range(a.start_date, a.end_date, engine.now)
          /\ create_strategy(a.strategy_name)
       THEN /\ phase' = "fetching"
            /\ params' = a
            /\ engine' = [engine EXCEPT !.insufficient = FALSE, !.fetches = 0,
                                        !.mock = FALSE, !.portfolio_values = <<>>,
                                        !.dates = <<>>]
       ELSE /\ engine' = [engine EXCEPT !.returned = Append(@, raised(a)),
                                        !.portfolio_values = <<>>,
                                        !.dates = <<>>]
            /\ UNCHANGED <<phase, params>>
    /\ UNCHANGED <<data, self, broker, steps, fired, twin>>

\* run_backtest up to the fetch: the check of the date range and of the
\* strategy name, either of which raises before anything is assigned.
run_backtest(a) ==
    /\ phase = "idle"
    /\ Len(engine.returned) < MaxCalls
    /\ IF /\ validate_date_range(a.start_date, a.end_date, engine.now)
          /\ create_strategy(a.strategy_name)
       THEN /\ phase' = "fetching"
            /\ params' = a
            /\ engine' = [engine EXCEPT !.insufficient = FALSE, !.fetches = 0,
                                        !.mock = FALSE]
       ELSE /\ engine' = [engine EXCEPT !.returned = Append(@, raised(a))]
            /\ UNCHANGED <<phase, params>>
    /\ UNCHANGED <<data, self, broker, steps, fired, performance_metrics, twin>>

\* The cerebro set up on a feed: data, strategy, cash.
setup ==
    /\ phase' = "running"
    /\ data' = <<>>
    /\ self' = strategy_init
    /\ broker' = broker_init(params.initial_cash)
    /\ steps' = <<>>
    /\ fired' = <<>>
    /\ UNCHANGED <<params, performance_metrics, twin>>

fetched(e, r) ==
    [e EXCEPT !.cooldown = r.cooldown, !.cache = r.cache,
              !.insufficient = @ \/ r.insufficient, !.fetches = @ + 1]

\* run_backtest's DataManager.fetch_data.
fetch(reply) ==
    /\ phase = "fetching"
    /\ IF fetch_data(engine, params, reply).ok
       THEN /\ engine' = [fetched(engine, fetch_data(engine, params, reply))
                             EXCEPT !.data_source = "real",
                                    !.feed = fetch_data(engine, params,
                                                        reply).data]
            /\ setup
       ELSE /\ engine' = fetched(engine, fetch_data(engine, params, reply))
            /\ phase' = "fallback"
            /\ UNCHANGED <<params, data, self, broker, steps, fired,
                           performance_metrics, twin>>

\* The except branch: get_data_with_fallback fetches once more and generates
\* mock data when that fails too.
get_data_with_fallback(reply) ==
    /\ phase = "fallback"
    /\ IF fetch_data(engine, params, reply).ok
       THEN engine' = [fetched(engine, fetch_data(engine, params, reply))
                          EXCEPT !.data_source = "mock",
                                 !.feed = fetch_data(engine, params,
                                                     reply).data]
       ELSE engine' = [fetched(engine, fetch_data(engine, params, reply))
                          EXCEPT !.data_source = "mock", !.mock = TRUE,
                                 !.feed = generate_mock_data(params.symbol,
                                              params.start_date,
                                              params.end_date)]
    /\ setup

\* An engine that adds the strategy's lists to those it already holds.
capture_appending(previous, recorded) == previous \o recorded

\* self.portfolio_values = strategy.portfolio_values (and the dates).
capture(previous, recorded) == recorded

\* "Preserve existing fields": those of the old metrics the new ones lack.
preserve_existing(new_metrics, existing) == new_metrics @@ existing

get_chart_data(portfolio_values, dates) ==
    IF portfolio_values # <<>> /\ dates # <<>>
    THEN [dates |-> dates, portfolio_values |-> portfolio_values]
    ELSE None

\* The metrics run_backtest returns.
returned_metrics ==
    ("data_source" :> engine.data_source) @@ ("symbol" :> params.symbol)
    @@ preserve_existing(
           _calculate_performance_metrics(
               broker, self, params.initial_cash, params.investment_amount,
               params.investment_freq, params.start_date, params.end_date),
           performance_metrics)

\* What a call that returned leaves for its caller.
returned ==
    [args |-> params, outcome |-> "returned", reused |-> engine.used,
     feed |-> engine.feed, data_source |-> engine.data_source,
     insufficient |-> engine.insufficient, fetches |-> engine.fetches,
     mock |-> engine.mock, bars |-> Len(data), metrics |-> returned_metrics,
     chart |-> get_chart_data(
                   capture(engine.portfolio_values, self.portfolio_values),
                   capture(engine.dates, self.dates))]

\* run_backtest after cerebro.run(): the lists captured, the metrics.
finish ==
    /\ phase = "running"
    /\ Len(data) = Len(engine.feed)
    /\ phase' = "idle"
    /\ performance_metrics' = returned_metrics
    /\ engine' = [engine EXCEPT
           !.used = TRUE,
           !.portfolio_values = capture(@, self.portfolio_values),
           !.dates = capture(@, self.dates),
           !.returned = Append(@, returned)]
    /\ UNCHANGED <<params, data, self, broker, steps, fired, twin>>

NextEngine ==
    \/ __init__
    \/ \E a \in Calls : run_backtest(a)
    \/ \E reply \in Replies : fetch(reply)
    \/ \E reply \in Replies : get_data_with_fallback(reply)
    \/ /\ engine # None
       /\ phase = "running"
       /\ Len(data) < Len(engine.feed)
       /\ prenext(engine.feed[Len(data) + 1])
    \/ /\ engine # None
       /\ phase = "running"
       /\ Len(data) < Len(engine.feed)
       /\ next(engine.feed[Len(data) + 1])
    \/ finish

SpecEngine == InitEngine /\ [][NextEngine]_vars

\* The calls made so far and what each left for its caller.
calls == 1..Len(engine.returned)

call(k) == engine.returned[k]

C19_InvalidRangeRejectedFirst ==
    /\ \A k \in calls :
           IF \/ call(k).args.start_date >= call(k).args.end_date
              \/ call(k).args.start_date < Date(1990, 1, 1)
              \/ call(k).args.end_date > engine.now
           THEN /\ call(k).outcome = "ValueError"
                /\ call(k).fetches = 0
                /\ ~call(k).mock
                /\ call(k).bars = 0
                /\ call(k).chart = None
           ELSE \/ call(k).outcome = "returned"
                \/ ~create_strategy(call(k).args.strategy_name)
    /\ phase # "idle"
           => /\ params.start_date < params.end_date
              /\ params.start_date >= Date(1990, 1, 1)
              /\ params.end_date <= engine.now

C19_RejectedAndAccepted ==
    /\ Len(engine.returned) = 2
    /\ call(1).outcome = "ValueError"
    /\ call(1).args.start_date = call(1).args.end_date
    /\ call(2).outcome = "returned"
    /\ call(2).bars > 0

\* C20: a call whose fetched and cleaned data has fewer than 10 rows reports
\* an error to its caller and simulates no bar.
C20_ShortSeriesRejected ==
    \A k \in calls :
        call(k).insufficient
            => /\ call(k).outcome = "ValueError"
               /\ call(k).bars = 0

\* C21: a call whose first fetch fails still returns, on a fallback series,
\* and the data_source it reports is "mock" exactly when the series simulated
\* was generated and "real" exactly when it is the provider's or the cache's.
C21_DataSourceTellsTheSeries ==
    \A k \in calls :
        call(k).outcome = "returned"
            => /\ call(k).data_source \in {"mock", "real"}
               /\ call(k).metrics.data_source = call(k).data_source
               /\ call(k).data_source = "mock" <=> call(k).mock

(***************************************************************************)
(* SpecCache: the DataManager by itself, any sequence of fetch_data and    *)
(* clear_cache calls.  `stored` and `succeeded` remember, since the last   *)
(* clear_cache, the rows saved for each triple and the triples fetch_data  *)
(* has returned rows for.                                                  *)
(***************************************************************************)
CacheSymbols == {"SPY", "QQQ"}

CacheRanges ==
    {<<Date(2018, 1, 29), Date(2018, 2, 9)>>,
     <<Date(2018, 1, 29), Date(2018, 2, 12)>>}

Fetches ==
    {[symbol |-> s, start_date |-> r[1], end_date |-> r[2]] :
     s \in CacheSymbols, r \in CacheRanges}

triple(a) == <<a.symbol, a.start_date, a.end_date>>

InitCache ==
    /\ params = None
    /\ data = <<>>
    /\ self = None
    /\ broker = None
    /\ steps = <<>>
    /\ fired = <<>>
    /\ performance_metrics = None
    /\ phase = "idle"
    /\ twin = None
    /\ engine = [cooldown |-> {}, cache |-> {}, stored |-> {},
                 succeeded |-> {}, last |-> None]

remembered(stored, a, r, saved) ==
    IF r.ok /\ r.network /\ saved
    THEN {s \in stored : s.triple # triple(a)}
         \cup {[triple |-> triple(a), data |-> r.data]}
    ELSE stored

\* A call of DataManager.fetch_data(symbol, start_date, end_date).
call_fetch_data(a, reply) ==
    /\ engine' =
           [cooldown |-> fetch_data(engine, a, reply).cooldown,
            cache |-> fetch_data(engine, a, reply).cache,
            stored |-> remembered(engine.stored, a,
                                  fetch_data(engine, a, reply), reply.saved),
            succeeded |-> IF fetch_data(engine, a, reply).ok
                          THEN engine.succeeded \cup {triple(a)}
                          ELSE engine.succeeded,
            last |-> [op |-> "fetch_data", args |-> a,
                      ok |-> fetch_data(engine, a, reply).ok,
                      data |-> fetch_data(engine, a, reply).data,
                      network |-> fetch_data(engine, a, reply).network]]
    /\ UNCHANGED <<params, data, self, broker, steps, fired,
                   performance_metrics, phase, twin>>

\* DataManager.clear_cache: the cache directory removed.
clear_cache ==
    /\ engine.cache # {}
    /\ engine' = [engine EXCEPT !.cache = {}, !.stored = {}, !.succeeded = {},
                                !.last = [op |-> "clear_cache"]]
    /\ UNCHANGED <<params, data, self, broker, steps, fired,
                   performance_metrics, phase, twin>>

NextCache ==
    \/ \E a \in Fetches, reply \in Replies : call_fetch_data(a, reply)
    \/ clear_cache

SpecCache == InitCache /\ [][NextCache]_vars

\* The rows saved for the triple of a, if any.
saved_for(a) == {s \in engine.stored : s.triple = triple(a)}

Threads == {1, 2}

ThreadRanges ==
    {<<Date(2018, 1, 29), Date(2018, 2, 9)>>,
     <<Date(2018, 1, 29), Date(2018, 2, 2)>>}

ThreadCalls ==
    {[symbol |-> "SPY", start_date |-> r[1], end_date |-> r[2]] :
     r \in ThreadRanges}

ThreadReplies ==
    [kind : {"rows", "rate_limit", "error"}, saved : {TRUE}, elapsed : {FALSE}]

\* The stream of the generator from position k on.
Rot(prices, k) ==
    [i \in 1..Len(prices) |-> prices[((i - 1 + k) % Len(prices)) + 1]]

\* generate_mock_data's prices when its draws start at position rng of the
\* stream that np.random.seed(42) starts.
mock_bars(start_date, end_date, rng) ==
    bars_of(bdate_range(start_date, end_date), Rot(MockPrices, rng))

\* cerebro.run() over a whole feed.
RECURSIVE run_feed(_, _)
run_feed(r, feed) ==
    IF Len(r.data) >= Len(feed) THEN r ELSE run_feed(deliver(r, feed), feed)

\* What run_backtest returns after the run r: metrics and chart data.
results_of(r, a, source) ==
    [metrics |->
         ("data_source" :> source) @@ ("symbol" :> a.symbol)
         @@ _calculate_performance_metrics(
                r.broker, r.self, params.initial_cash, params.investment_amount,
                params.investment_freq, a.start_date, a.end_date),
     chart |-> get_chart_data(r.self.portfolio_values, r.self.dates)]

\* run_backtest from the cerebro set up on the feed to the return; the RSI
\* raises ZeroDivisionError on a feed without a down move.
outcome(a, feed, source) ==
    IF feed_ok(feed)
    THEN results_of(run_feed([data |-> <<>>, self |-> strategy_init,
                              broker |-> broker_init(params.initial_cash),
                              steps |-> <<>>, fired |-> <<>>], feed),
                    a, source)
    ELSE [metrics |-> "ZeroDivisionError", chart |-> None]

InitThreads ==
    \E s \in FactoryStrategies :
        \E calls_of \in [Threads -> ThreadCalls] :
            \E replies_of \in [Threads -> [1..2 -> ThreadReplies]] :
                /\ params = [strategy_name |-> s, investment_freq |-> "weekly",
                             investment_amount |-> 500, initial_cash |-> 10000,
                             start_date |-> Date(2018, 1, 29)]
                /\ data = <<>>
                /\ self = None
                /\ broker = None
                /\ steps = <<>>
                /\ fired = <<>>
                /\ performance_metrics = None
                /\ phase = "idle"
                /\ twin = None
                /\ engine =
                       [cooldown |-> {}, cache |-> {}, rng |-> 0,
                        threads |->
                            [t \in Threads |->
                                [pc |-> "validate", args |-> calls_of[t],
                                 replies |-> replies_of[t], feed |-> <<>>,
                                 source |-> "none", result |-> None]]]

thread(t) == engine.threads[t]

rest == <<params, data, self, broker, steps, fired, performance_metrics, phase, twin>>

\* DataManager.validate_date_range in session t (now: 2018-02-10).
t_validate(t) ==
    /\ thread(t).pc = "validate"
    /\ validate_date_range(thread(t).args.start_date, thread(t).args.end_date,
                           Date(2018, 2, 10))
    /\ engine' = [engine EXCEPT !.threads[t].pc = "fetch"]
    /\ UNCHANGED rest

\* The shared state after a fetch_data that returned r.
shared(e, r) == [e EXCEPT !.cooldown = r.cooldown, !.cache = r.cache]

t_fetched(e, t, r, source, failed) ==
    IF r.ok
    THEN [shared(e, r) EXCEPT !.threads[t].pc = "run",
                              !.threads[t].feed = r.data,
                              !.threads[t].source = source]
    ELSE [shared(e, r) EXCEPT !.threads[t].pc = failed]

\* Session t's DataManager.fetch_data in run_backtest.
t_fetch(t) ==
    /\ thread(t).pc = "fetch"
    /\ engine' = t_fetched(engine, t,
                     fetch_data(engine, thread(t).args, thread(t).replies[1]),
                     "real", "fallback")
    /\ UNCHANGED rest

\* Session t's fetch_data in get_data_with_fallback.
t_fallback(t) ==
    /\ thread(t).pc = "fallback"
    /\ engine' = t_fetched(engine, t,
                     fetch_data(engine, thread(t).args, thread(t).replies[2]),
                     "mock", "seed")
    /\ UNCHANGED rest

\* generate_mock_data in session t: np.random.seed(42).
t_seed(t) ==
    /\ thread(t).pc = "seed"
    /\ engine' = [engine EXCEPT !.rng = 0, !.threads[t].pc = "returns"]
    /\ UNCHANGED rest

\* generate_mock_data in session t: the returns drawn, the prices made.
t_returns(t) ==
    /\ thread(t).pc = "returns"
    /\ engine' =
           [engine EXCEPT
               !.rng = (@ + Len(bdate_range(thread(t).args.start_date,
                                            thread(t).args.end_date)))
                       % Len(MockPrices),
               !.threads[t].pc = "run",
               !.threads[t].source = "mock",
               !.threads[t].feed = mock_bars(thread(t).args.start_date,
                                             thread(t).args.end_date,
                                             engine.rng)]
    /\ UNCHANGED rest

\* cerebro.run() and the metrics in session t.
t_run(t) ==
    /\ thread(t).pc = "run"
    /\ engine' = [engine EXCEPT
           !.threads[t].pc = "done",
           !.threads[t].result = outcome(thread(t).args, thread(t).feed,
                                         thread(t).source)]
    /\ UNCHANGED rest

NextThreads ==
    \/ \E t \in Threads : t_validate(t)
    \/ \E t \in Threads : t_fetch(t)
    \/ \E t \in Threads : t_fallback(t)
    \/ \E t \in Threads : t_seed(t)
    \/ \E t \in Threads : t_returns(t)
    \/ \E t \in Threads : t_run(t)

SpecThreads == InitThreads /\ [][NextThreads]_vars

\* The DataManager as a process that runs nothing else has it.
unshared == [cooldown |-> {}, cache |-> {}]

\* The series and source a session gets when it runs alone, on the same
\* answers of the network.
alone_fetched(a, replies, first) ==
    IF first.ok THEN [feed |-> first.data, source |-> "real"]
    ELSE IF fetch_data(shared(unshared, first), a, replies[2]).ok
    THEN [feed |-> fetch_data(shared(unshared, first), a, replies[2]).data,
          source |-> "mock"]
    ELSE [feed |-> generate_mock_data(a.symbol, a.start_date, a.end_date),
          source |-> "mock"]

alone(a, replies) == alone_fetched(a, replies, fetch_data(unshared, a, replies[1]))

\* C23: whatever the interleaving, a session that has returned has the
\* equity curve and the metrics it gets when it runs alone.
C23_AsWhenAlone ==
    \A t \in Threads :
        thread(t).pc = "done"
            => thread(t).result
                   = outcome(thread(t).args,
                             alone(thread(t).args, thread(t).replies).feed,
                             alone(thread(t).args, thread(t).replies).source)


\* A session whose mock prices were drawn after another session's draws
\* moved the shared generator.
C23_DrawsAfterAnothersDraws ==
    \E t \in Threads :
        /\ thread(t).pc = "done"
        /\ thread(t).source = "mock"
        /\ alone(thread(t).args, thread(t).replies).source = "mock"
        /\ thread(t).feed # alone(thread(t).args, thread(t).replies).feed
        /\ engine.cache = {}


(***************************************************************************)
(* The strategy's books from one bar to the next.                          *)
(***************************************************************************)
traded == {i \in 1..Len(steps) : steps[i].op \in {"invest", "sell_position"}}

contributed ==
    {i \in 1..Len(steps) : steps[i].op = "add_cash_periodically" /\ steps[i].ret}

\* C24: with a contribution amount >= 0, accumulated_cash is never negative
\* and current_position is a non-negative whole number; total_invested,
\* investment_count and sell_count never decrease; current_position changes
\* only on a bar with a buy or a sell, accumulated_cash only on a bar with a
\* contribution, a buy or a sell.
C24_BooksStayInRange ==
    /\ [](/\ self.accumulated_cash >= 0
          /\ self.current_position \in Nat)
    /\ [][/\ self'.total_invested >= self.total_invested
          /\ self'.investment_count >= self.investment_count
          /\ self'.sell_count >= self.sell_count
          /\ self'.current_position # self.current_position => traded' # {}
          /\ self'.accumulated_cash # self.accumulated_cash
                 => traded' \cup contributed' # {}]_vars

C24_FundedTwiceBoughtAndSold ==
    /\ params.investment_amount >= 0
    /\ self.total_invested >= 2 * params.investment_amount
    /\ self.investment_count >= 1
    /\ self.sell_count >= 1
    /\ self.accumulated_cash > 0


\* accumulated_cash after step i of the bar's handler.
cash_after(i) ==
    IF i = Len(steps) THEN self.accumulated_cash ELSE steps[i + 1].cash

\* C25: a buy takes from accumulated_cash what it takes from the broker's
\* cash at the same price: shares x price plus the 0.05% commission (in ticks
\* of 1/2000 dollar; steps[i].ret is shares x price).
C25_CommissionInAccumulatedCash ==
    \A i \in 1..Len(steps) :
        steps[i].op = "invest"
            => 2000 * (steps[i].cash - cash_after(i))
                   = 2000 * steps[i].ret + steps[i].ret


(***************************************************************************)
(* SpecTrades: weekly runs on 10000 of initial cash, long enough for the   *)
(* RSI strategy to buy, see the price recover, sell, and have the sale     *)
(* executed before the run ends.                                           *)
(***************************************************************************)
MaxTradeBars == 6

InitTrades == \E p \in Runs({Date(2018, 1, 29)}, {"weekly"}, {10000}) : Start(p)

NextTrades ==
    \/ /\ Len(data) < MaxTradeBars
       /\ \E bar \in Bars({NextDay}, Closes) : prenext(bar)
    \/ /\ Len(data) < MaxTradeBars
       /\ \E bar \in Bars({NextDay}, Closes) : next(bar)
    \/ stop(NextDay)

SpecTrades == InitTrades /\ [][NextTrades]_vars

(***************************************************************************)
(* The trade statistics of a finished run.                                 *)
(***************************************************************************)
ended == phase = "stopped" /\ params.strategy_name \in FactoryStrategies

buys == {k \in 1..Len(broker.orders) : broker.orders[k].isbuy}

sells == {k \in 1..Len(broker.orders) : ~broker.orders[k].isbuy}

\* C26: buy_trades and sell_trades count the strategy's buys and sells and
\* total_trades is their sum; win_rate_pct is 0 without a sell, lies in
\* 0..100, and is 100 when the run closed a round trip and every round trip
\* closed above its cost.
C26_TradeCountsAndWinRate ==
    ended
        => /\ performance_metrics.buy_trades = Cardinality(buys)
           /\ performance_metrics.sell_trades = Cardinality(sells)
           /\ performance_metrics.total_trades
                  = performance_metrics.buy_trades
                    + performance_metrics.sell_trades
           /\ performance_metrics.sell_trades = 0
                  => performance_metrics.win_rate_pct.num = 0
           /\ performance_metrics.win_rate_pct.num >= 0
           /\ performance_metrics.win_rate_pct.num
                  <= 100 * performance_metrics.win_rate_pct.den
           /\ (/\ performance_metrics.winning_trades >= 1
               /\ performance_metrics.losing_trades = 0)
                  => performance_metrics.win_rate_pct.num
                         = 100 * performance_metrics.win_rate_pct.den


(***************************************************************************)
(* SpecDrawdown: run_backtest's cerebro with the DrawDown analyzer it      *)
(* attaches.  On every bar, warm-up included, the analyzer is notified of  *)
(* the broker's value before the strategy's handler runs, and then         *)
(* computes the drawdown from the highest value it was notified of.  A     *)
(* drawdown is kept as the fraction num / den of the peak (the percentage  *)
(* is 100 times it).                                                       *)
(***************************************************************************)
MaxDrawdownBars == 4

\* a / b <= c / d, for a, c >= 0 and b, d > 0.
RECURSIVE frac_le(_, _, _, _)
frac_le(a, b, c, d) ==
    IF a \div b # c \div d THEN a \div b < c \div d
    ELSE IF a % b = 0 THEN TRUE
    ELSE IF c % d = 0 THEN FALSE
    ELSE frac_le(d, c % d, b, a % b)

\* DrawDown.create_analysis: no value seen (float('-inf')), drawdown 0.0.
create_analysis ==
    [maxvalue |-> 0 - 1, value |-> 0, max |-> [drawdown |-> [num |-> 0, den |-> 1]]]

\* DrawDown.notify_fund
notify_fund(a, value) ==
    [a EXCEPT !.value = value, !.maxvalue = Max(@, value)]

\* DrawDown.next: 100.0 * moneydown / self._maxvalue raises on a peak of 0.
raises(a) == a.maxvalue = 0

analyzer_next(a) ==
    IF frac_le(a.maxvalue - a.value, a.maxvalue,
               a.max.drawdown.num, a.max.drawdown.den)
    THEN a
    ELSE [a EXCEPT !.max.drawdown =
              [num |-> a.maxvalue - a.value, den |-> a.maxvalue]]

\* analyzers.drawdown.get_analysis()
get_analysis(a) == [max |-> a.max]

\* drawdown_analysis.get('max', {}).get('drawdown', 0)
max_drawdown(drawdown_analysis) ==
    IF "max" \notin DOMAIN drawdown_analysis THEN [num |-> 0, den |-> 1]
    ELSE IF "drawdown" \notin DOMAIN drawdown_analysis.max
    THEN [num |-> 0, den |-> 1]
    ELSE drawdown_analysis.max.drawdown

InitDrawdown ==
    \E s \in FactoryStrategies, cash \in InitialCash :
        /\ params = [strategy_name |-> s, investment_freq |-> "weekly",
                     investment_amount |-> 500, initial_cash |-> cash,
                     start_date |-> Date(2018, 1, 29)]
        /\ data = <<>>
        /\ self = strategy_init
        /\ broker = broker_init(cash)
        /\ steps = <<>>
        /\ fired = <<>>
        /\ performance_metrics = None
        /\ phase = "running"
        /\ twin = None
        /\ engine = create_analysis

notified(d) == notify_fund(engine, getvalue(broker_next(broker, d)))

\* A bar of cerebro.run(): broker cycle, analyzer, prenext() or next().
analyzed(bar) ==
    /\ phase = "running"
    /\ Len(data) < MaxDrawdownBars
    /\ series_ok(Append(data, bar))
    /\ ~raises(notified(Append(data, bar)))
    /\ engine' = analyzer_next(notified(Append(data, bar)))
    /\ data' = Append(data, bar)
    /\ self' = deliver(first_run, Append(data, bar)).self
    /\ broker' = deliver(first_run, Append(data, bar)).broker
    /\ steps' = deliver(first_run, Append(data, bar)).steps
    /\ fired' = deliver(first_run, Append(data, bar)).fired
    /\ UNCHANGED <<params, performance_metrics, phase, twin>>

\* A bar on which the analyzer raises ZeroDivisionError: cerebro.run() and
\* run_backtest end with it.
analyzer_raises(bar) ==
    /\ phase = "running"
    /\ Len(data) < MaxDrawdownBars
    /\ series_ok(Append(data, bar))
    /\ raises(notified(Append(data, bar)))
    /\ engine' = notified(Append(data, bar))
    /\ data' = Append(data, bar)
    /\ broker' = broker_next(broker, Append(data, bar))
    /\ phase' = "raised"
    /\ UNCHANGED <<params, self, steps, fired, performance_metrics, twin>>

\* The end of the feed and the metrics.
reported(end_date) ==
    /\ phase = "running"
    /\ data # <<>>
    /\ phase' = "stopped"
    /\ performance_metrics' =
           ("max_drawdown_pct" :> max_drawdown(get_analysis(engine)))
           @@ _calculate_performance_metrics(
                  broker, self, params.initial_cash, params.investment_amount,
                  params.investment_freq, params.start_date, end_date)
    /\ UNCHANGED <<params, data, self, broker, steps, fired, twin, engine>>

NextDrawdown ==
    \/ \E bar \in Bars({NextDay}, Closes) : analyzed(bar)
    \/ \E bar \in Bars({NextDay}, Closes) : analyzer_raises(bar)
    \/ reported(NextDay)

SpecDrawdown == InitDrawdown /\ [][NextDrawdown]_vars

\* The highest of the first j values of the equity curve.
RECURSIVE peak(_)
peak(j) ==
    IF j = 1 THEN self.portfolio_values[1]
    ELSE Max(peak(j - 1), self.portfolio_values[j])

curve == 1..Len(self.portfolio_values)

\* C27: a run whose values are never negative reports a max_drawdown_pct:
\* the largest (peak so far - value) / peak over the equity curve, between
\* 0 and 100 (as fractions of the peak: between 0 and 1).
C27_MaxDrawdownOfTheCurve ==
    /\ phase = "raised" => getvalue(broker) < 0
    /\ phase = "stopped"
           => /\ \A j \in curve :
                     frac_le(peak(j) - self.portfolio_values[j], peak(j),
                             performance_metrics.max_drawdown_pct.num,
                             performance_metrics.max_drawdown_pct.den)
              /\ \/ performance_metrics.max_drawdown_pct.num = 0
                 \/ \E j \in curve :
                        frac_le(performance_metrics.max_drawdown_pct.num,
                                performance_metrics.max_drawdown_pct.den,
                                peak(j) - self.portfolio_values[j], peak(j))
              /\ performance_metrics.max_drawdown_pct.num >= 0
              /\ performance_metrics.max_drawdown_pct.num
                     <= performance_metrics.max_drawdown_pct.den

\* The same for the runs that start with cash.
C27_HoldsWithInitialCash ==
    params.initial_cash > 0 => C27_MaxDrawdownOfTheCurve

C27_ReportedADrawdown ==
    /\ phase = "stopped"
    /\ performance_metrics.max_drawdown_pct.num > 0


\* C28: the moving-average strategy's should_invest is true on a bar exactly
\* when the fast SMA was at or below the slow SMA on the bar before and is
\* above it on this bar.
C28_GoldenCross ==
    params.strategy_name = "moving_average"
        => \A i \in 1..Len(steps) :
               steps[i].op = "should_invest"
                   => (steps[i].ret
                         <=> /\ ma_diff(data, StrategyParams.fast_period,
                                        StrategyParams.slow_period,
                                        Len(data) - 1) <= 0
                             /\ ma_diff(data, StrategyParams.fast_period,
                                        StrategyParams.slow_period,
                                        Len(data)) > 0)

\* A series whose closes are all the same price.
flat == \A i \in 1..Len(data) : data[i].close = data[1].close

\* BollingerBandsStrategy.should_invest as of bar k.
bb_signal(k) ==
    close_at_or_below_bot(SubSeq(data, 1, k), StrategyParams.bb_period,
                          StrategyParams.bb_dev)

\* The signal the handler evaluated on the last bar.
signalled ==
    \E i \in 1..Len(steps) : steps[i].op = "should_invest" /\ steps[i].ret

\* C29: on a flat series the Bollinger strategy's buy signal is not true on
\* every bar: of two or more bars handled, at least one does not signal.
C29_FlatSeriesDoesNotSignalEveryBar ==
    (/\ params.strategy_name = "bollinger_bands"
     /\ phase = "running"
     /\ flat
     /\ Cardinality(handled) >= 2)
        => ~(/\ signalled
             /\ \A k \in handled : bb_signal(k))

\* Bars have been delivered and the strategy's indicators are not all
\* defined yet.
warmup == data # <<>> /\ Len(data) < minperiod(params.strategy_name)

MaxTicks == 3

max_attempts == 10

_RATE_LIMIT_COOLDOWN_SECONDS == 600

seconds(t) == t * 300

FetchRange == <<Date(2018, 1, 29), Date(2018, 2, 9)>>

fetch_key(symbol) == _get_cache_key(symbol, FetchRange[1], FetchRange[2])

\* What one yf.download can come to: rows that survive cleaning (10 or 5),
\* an empty frame, an exception whose text names a rate limit, another one.
Downloads == {"rows", "few", "empty", "rate_limit", "error"}

rows_of(got) == IF got = "rows" THEN 10 ELSE 5

never == 0 - 1

\* The gate of fetch_data on _symbol_last_rate_limit_ts, checked with `<=`.
gate_at_or_before(e, symbol) ==
    /\ e.ts[symbol] # never
    /\ seconds(e.now - e.ts[symbol]) <= _RATE_LIMIT_COOLDOWN_SECONDS

\* The gate of fetch_data on _symbol_last_rate_limit_ts.
in_cooldown(e, symbol) ==
    /\ e.ts[symbol] # never
    /\ seconds(e.now - e.ts[symbol]) < _RATE_LIMIT_COOLDOWN_SECONDS

\* DataManager.get_rate_limit_status: the symbols it lists.
get_rate_limit_status(e) ==
    {s \in DOMAIN e.ts :
        /\ e.ts[s] # never
        /\ seconds(e.now - e.ts[s]) < _RATE_LIMIT_COOLDOWN_SECONDS}

cached(e, symbol) == {c \in e.cache : c.key = fetch_key(symbol)}

idle ==
    [symbol |-> "", result |-> "none", downloads |-> 0, blocked |-> FALSE,
     hit |-> FALSE, listed |-> FALSE, limited |-> FALSE, since |-> never,
     rows |-> 0, got |-> "none"]

InitFetch ==
    /\ params = None
    /\ data = <<>>
    /\ self = None
    /\ broker = None
    /\ steps = <<>>
    /\ fired = <<>>
    /\ performance_metrics = None
    /\ phase = "idle"
    /\ twin = None
    /\ engine = [now |-> 0, ts |-> [s \in CacheSymbols |-> never],
                 provider |-> [s \in CacheSymbols |-> never],
                 cache |-> {}, pc |-> "idle", symbol |-> "", attempt |-> 0,
                 last |-> idle]

others == <<params, data, self, broker, steps, fired, performance_metrics, phase, twin>>

\* The clock: between calls, and in the sleeps between attempts.
tick ==
    /\ engine.now < MaxTicks
    /\ engine' = [engine EXCEPT !.now = @ + 1]
    /\ UNCHANGED others

\* The outer `except` of fetch_data: a message that reads as a rate limit
\* records the time; every exception leaves as ValueError.
raise_out(e, rate_limit_text, r) ==
    [e EXCEPT !.pc = "idle",
              !.ts[e.symbol] = IF rate_limit_text THEN e.now ELSE @,
              !.last = [r EXCEPT !.result = "ValueError"]]

started(e, symbol) ==
    [idle EXCEPT !.symbol = symbol,
                 !.listed = symbol \in get_rate_limit_status(e),
                 !.since = e.provider[symbol]]

\* Without the outer `except` seeing the gate's message as a rate limit.
begin_leaving_ts(e, symbol) ==
    IF cached(e, symbol) # {}
    THEN [e EXCEPT !.symbol = symbol,
                   !.last = [started(e, symbol) EXCEPT
                                !.result = "data", !.hit = TRUE,
                                !.rows = (CHOOSE c \in cached(e, symbol) : TRUE).rows]]
    ELSE IF in_cooldown(e, symbol)
    THEN raise_out([e EXCEPT !.symbol = symbol], FALSE,
                   [started(e, symbol) EXCEPT !.blocked = TRUE])
    ELSE [e EXCEPT !.symbol = symbol, !.pc = "download", !.attempt = 0,
                   !.last = started(e, symbol)]

\* fetch_data up to the download loop: the cache, then the cooldown gate,
\* whose message ("Rate limit recently detected ...") the outer `except`
\* reads as a rate limit.
begin(e, symbol) ==
    IF cached(e, symbol) # {}
    THEN [e EXCEPT !.symbol = symbol,
                   !.last = [started(e, symbol) EXCEPT
                                !.result = "data", !.hit = TRUE,
                                !.rows = (CHOOSE c \in cached(e, symbol) : TRUE).rows]]
    ELSE IF in_cooldown(e, symbol)
    THEN raise_out([e EXCEPT !.symbol = symbol], TRUE,
                   [started(e, symbol) EXCEPT !.blocked = TRUE])
    ELSE [e EXCEPT !.symbol = symbol, !.pc = "download", !.attempt = 0,
                   !.last = started(e, symbol)]

call_fetch(symbol) ==
    /\ engine.pc = "idle"
    /\ engine' = begin(engine, symbol)
    /\ UNCHANGED others

\* The rows are saved before their number is checked.
saved_before_checked(e, rows, saved, r) ==
    IF rows < MinRows
    THEN raise_out([e EXCEPT !.cache = {c \in @ : c.key # fetch_key(e.symbol)}
                                       \cup {[key |-> fetch_key(e.symbol),
                                              rows |-> rows]}],
                   FALSE, r)
    ELSE [e EXCEPT !.pc = "idle",
                   !.cache = {c \in @ : c.key # fetch_key(e.symbol)}
                             \cup {[key |-> fetch_key(e.symbol), rows |-> rows]},
                   !.last = [r EXCEPT !.result = "data", !.rows = rows]]

\* After the loop: cleaning, the row check, the (best-effort) save.
checked_and_saved(e, rows, saved, r) ==
    IF rows < MinRows THEN raise_out(e, FALSE, r)
    ELSE [e EXCEPT !.pc = "idle",
                   !.cache = IF saved
                             THEN {c \in @ : c.key # fetch_key(e.symbol)}
                                  \cup {[key |-> fetch_key(e.symbol),
                                         rows |-> rows]}
                             ELSE @,
                   !.last = [r EXCEPT !.result = "data", !.rows = rows]]

downloaded(r, got) == [r EXCEPT !.downloads = @ + 1, !.got = got]

\* _enhanced_rate_limit_handling never giving up.
retry_without_limit(e, r) == [e EXCEPT !.attempt = @ + 1, !.last = r]

\* _enhanced_rate_limit_handling and what follows it: sleep and go on, or on
\* the last attempt record the time and raise.
_enhanced_rate_limit_handling(e, r) ==
    IF e.attempt < max_attempts - 1
    THEN [e EXCEPT !.attempt = @ + 1, !.last = r]
    ELSE raise_out([e EXCEPT !.ts[e.symbol] = e.now], TRUE,
                   [r EXCEPT !.limited = TRUE])

limited_by_provider(e) == [e EXCEPT !.provider[e.symbol] = e.now]

\* Every failed attempt handled as a rate limit.
attempted_retrying_all(e, got, saved) ==
    IF got \in {"rows", "few"}
    THEN checked_and_saved(e, rows_of(got), saved, downloaded(e.last, got))
    ELSE _enhanced_rate_limit_handling(limited_by_provider(e),
                                       downloaded(e.last, got))

\* One pass of the download loop.
attempted(e, got, saved) ==
    IF got \in {"rows", "few"}
    THEN checked_and_saved(e, rows_of(got), saved, downloaded(e.last, got))
    ELSE IF got \in {"empty", "rate_limit"}
    THEN _enhanced_rate_limit_handling(limited_by_provider(e),
                                       downloaded(e.last, got))
    ELSE raise_out(e, FALSE, downloaded(e.last, got))

attempt(got, saved) ==
    /\ engine.pc = "download"
    /\ engine' = attempted(engine, got, saved)
    /\ UNCHANGED others

NextFetch ==
    \/ tick
    \/ \E symbol \in CacheSymbols : call_fetch(symbol)
    \/ \E got \in Downloads, saved \in BOOLEAN : attempt(got, saved)

SpecFetch == InitFetch /\ [][NextFetch]_vars


\* The scheduling of a call: the download loop keeps making its passes.
SpecFetchLive == SpecFetch /\ WF_vars(\E got \in Downloads, saved \in BOOLEAN : attempt(got, saved))

\* C31: a call of fetch_data makes at most 10 downloads and ends, with data
\* or with ValueError; a call that gave up after 10 rate-limited attempts
\* has recorded the time of the rate limit for its symbol when it raises.
C31_EndsWithinTenAttempts ==
    /\ [](/\ engine.last.downloads <= max_attempts
          /\ engine.attempt < max_attempts
          /\ (engine.pc = "idle" /\ engine.last.symbol # "")
                 => engine.last.result \in {"data", "ValueError"}
          /\ engine.last.limited
                 => /\ engine.last.downloads = max_attempts
                    /\ engine.last.result = "ValueError")
    /\ [][(engine'.last.limited /\ ~engine.last.limited)
              => engine'.ts[engine'.last.symbol] = engine'.now]_vars
    /\ (engine.pc = "download" ~> engine.pc = "idle")

C31_GaveUpAfterTenRateLimits ==
    /\ engine.pc = "idle"
    /\ engine.last.limited
    /\ engine.last.downloads = max_attempts


\* C32: of the download attempts that fail, only those failing with a rate
\* limit (an empty result included) are retried, up to the attempt limit;
\* an attempt failing otherwise is the call's last, the call raises
\* ValueError and no time is recorded for the symbol.
C32_OnlyRateLimitsRetried ==
    [][(engine'.last.downloads = engine.last.downloads + 1)
           => /\ engine'.last.got = "error"
                     => /\ engine'.pc = "idle"
                        /\ engine'.last.result = "ValueError"
                        /\ engine'.ts = engine.ts
              /\ engine'.last.got \in {"empty", "rate_limit"}
                     => IF engine.attempt < max_attempts - 1
                        THEN /\ engine'.pc = "download"
                             /\ engine'.attempt = engine.attempt + 1
                        ELSE /\ engine'.pc = "idle"
                             /\ engine'.last.result = "ValueError"
                             /\ engine'.last.limited
              /\ engine'.pc = "download"
                     => engine'.last.got \in {"empty", "rate_limit"}]_vars

C32_ErrorAfterRetries ==
    /\ engine.pc = "idle"
    /\ engine.last.got = "error"
    /\ engine.last.downloads >= 2
    /\ engine.ts[engine.last.symbol] = never


\* C33: a call for a symbol whose recorded rate limit is less than 600
\* seconds old, and whose series is not cached, raises without a download;
\* a call is blocked only by the time recorded for its own symbol; and the
\* symbols get_rate_limit_status lists are the symbols whose uncached fetch
\* is blocked.
C33_CooldownGate ==
    /\ [](engine.last.blocked
              => /\ engine.last.downloads = 0
                 /\ engine.last.result = "ValueError"
                 /\ engine.pc = "idle")
    /\ [][(engine.pc = "idle" /\ engine'.last.symbol # ""
           /\ engine'.last # engine.last)
              => /\ engine'.last.blocked
                     <=> /\ ~engine'.last.hit
                         /\ engine.ts[engine'.last.symbol] # never
                         /\ seconds(engine.now - engine.ts[engine'.last.symbol])
                                < _RATE_LIMIT_COOLDOWN_SECONDS
                 /\ engine'.last.blocked
                     <=> /\ ~engine'.last.hit
                         /\ engine'.last.symbol \in get_rate_limit_status(engine)
                 /\ \A s \in CacheSymbols :
                        s # engine'.last.symbol => engine'.ts[s] = engine.ts[s]]_vars

C33_BlockedWhileOtherSymbolDownloads ==
    /\ engine.last.blocked
    /\ \E s \in CacheSymbols :
           /\ s # engine.last.symbol
           /\ s \notin get_rate_limit_status(engine)
    /\ engine.now >= 1


\* C35: a call the cooldown gate rejects arrives less than 600 seconds after
\* the provider last rate-limited its symbol (a rejected call does not
\* postpone the end of the cooldown), and it leaves the recorded time as it
\* was.
C35_CooldownExpires ==
    [][(engine.pc = "idle" /\ engine'.last.blocked
        /\ engine'.last # engine.last)
           => /\ seconds(engine.now - engine.provider[engine'.last.symbol])
                     < _RATE_LIMIT_COOLDOWN_SECONDS
              /\ engine'.ts = engine.ts]_vars


\* C36: every cache entry has at least 10 rows, and a call that raised
\* wrote none: the cache is as the call found it.
C36_CacheHoldsValidatedSeries ==
    /\ [](\A c \in engine.cache : c.rows >= MinRows)
    /\ [][(engine'.last.result = "ValueError" /\ engine'.last # engine.last)
              => engine'.cache = engine.cache]_vars
    /\ [][engine'.cache # engine.cache
              => /\ engine'.last.result = "data"
                 /\ engine'.last.got = "rows"
                 /\ engine'.last.rows >= MinRows]_vars

C36_SavedAfterFailuresAndRetries ==
    /\ engine.cache # {}
    /\ engine.last.result = "ValueError"
    /\ engine.last.got = "few"
    /\ \E s \in CacheSymbols : engine.ts[s] # never


\* The frequencies the scheduler and the engine name.
Recognised == {"weekly", "monthly", "quarterly", "yearly"}

monthly_key(t) == <<year(t), month(t)>>

\* C34: under a frequency that is not one of the four named ones, the
\* scheduler's period key of every bar is the (year, month) of 'monthly',
\* the key it keeps is that of the last bar that contributed, and the
\* engine's total_invested uses the monthly count of periods.
C34_UnknownFrequencyIsMonthly ==
    params.investment_freq \notin Recognised
        => /\ \A i \in 1..Len(data) : key(i) = monthly_key(data[i].date)
           /\ \A i \in 1..Len(fired) :
                  (fired[i] /\ \A j \in (i + 1)..Len(fired) : ~fired[j])
                      => self.last_period = monthly_key(data[i].date)
           /\ (phase = "stopped" /\ params.strategy_name \in FactoryStrategies)
                  => /\ performance_metrics.total_invested
                            = params.initial_cash
                              + periods("monthly", params.start_date,
                                        performance_metrics.end_date)
                                * params.investment_amount
                     /\ performance_metrics.total_invested
                            = params.initial_cash
                              + ((year(performance_metrics.end_date)
                                  - year(params.start_date)) * 12
                                 + month(performance_metrics.end_date)
                                 - month(params.start_date) + 1)
                                * params.investment_amount

C34_DailyRunOverTwoMonths ==
    /\ params.investment_freq = "daily"
    /\ phase = "stopped"
    /\ params.strategy_name = "dca"
    /\ contributions = 2
    /\ month(data[Len(data)].date) # month(params.start_date)


\* What the buys among the handler steps st booked: shares x close.
RECURSIVE bought_on(_)
bought_on(st) ==
    IF st = <<>> THEN 0
    ELSE (IF Head(st).op = "invest" THEN Head(st).ret ELSE 0) + bought_on(Tail(st))

\* What the sells among the steps st added to accumulated_cash, which is
\* `after` when the last step is done.
RECURSIVE credited_on(_, _)
credited_on(st, after) ==
    IF st = <<>> THEN 0
    ELSE (IF Head(st).op = "sell_position"
          THEN (IF Len(st) = 1 THEN after ELSE st[2].cash) - Head(st).cash
          ELSE 0)
         + credited_on(Tail(st), after)

RECURSIVE booked(_)
booked(orders) ==
    IF orders = <<>> THEN 0
    ELSE (IF Head(orders).isbuy THEN Head(orders).size * Head(orders).price ELSE 0)
         + booked(Tail(orders))

\* C37: on every bar, what accumulated_cash gains, plus what the bar's buys
\* booked (shares x close), minus what its sells credited, is what
\* total_invested gains; from 0 = 0 at the start this is the conservation
\* identity.  So the buys never book more than the contributions received,
\* and with nothing credited by a sell the books add up to total_invested.
C37_CashConservation ==
    /\ [][(self'.accumulated_cash - self.accumulated_cash)
          + bought_on(steps') - credited_on(steps', self'.accumulated_cash)
              = self'.total_invested - self.total_invested]_vars
    /\ [](/\ booked(broker.orders) <= self.total_invested
          /\ self.sell_count = 0
                 => self.accumulated_cash + booked(broker.orders)
                        = self.total_invested)

C37_BoughtSoldAndFundedAgain ==
    /\ self.sell_count >= 1
    /\ self.investment_count >= 1
    /\ self.total_invested >= 2 * params.investment_amount
    /\ params.initial_cash > 0


\* C37 (broker side): the cash the broker holds never falls below the initial
\* cash, so the buys are paid from the contributions and the sales alone.
C37_InitialCashNotDeployed ==
    params.initial_cash > 0 => broker.cash >= 2000 * params.initial_cash


\* The orders of one side that the broker has filled.
filled(isbuy) ==
    {i \in DOMAIN broker.orders :
        broker.orders[i].isbuy = isbuy /\ broker.orders[i].status = "Completed"}

\* An order the broker has still to try.
pending ==
    \E i \in DOMAIN broker.orders :
        broker.orders[i].status \in {"Submitted", "Accepted"}

\* C38: once the run has ended, or no order is left for the broker to try,
\* the strategy's counts are the orders the broker filled, buys and sells,
\* and current_position is the broker's position size.
C38_BooksAgreeWithBroker ==
    (phase = "stopped" \/ ~pending)
        => /\ self.investment_count = Cardinality(filled(TRUE))
           /\ self.sell_count = Cardinality(filled(FALSE))
           /\ self.current_position = broker.position


\* What get_performance_metrics() and get_chart_data() return.
observable ==
    <<performance_metrics, get_chart_data(engine.portfolio_values, engine.dates)>>

\* C39: a call of run_backtest that raises on its date range or on its
\* strategy name leaves what get_performance_metrics() and get_chart_data()
\* return as it was; a call that returns leaves the metrics computed from its
\* own run with its own symbol and data source, and the curve its own
\* strategy recorded, whatever the engine held before.
C39_RaisedKeepsReturnedReplaces ==
    /\ [][(/\ phase = "idle"
           /\ Len(engine'.returned) > Len(engine.returned))
              => observable' = observable]_vars
    /\ [][(phase = "running" /\ phase' = "idle")
              => /\ performance_metrics'
                     = ("data_source" :> engine.data_source)
                       @@ ("symbol" :> params.symbol)
                       @@ _calculate_performance_metrics(
                              broker, self, params.initial_cash,
                              params.investment_amount, params.investment_freq,
                              params.start_date, params.end_date)
                 /\ get_chart_data(engine'.portfolio_values, engine'.dates)
                     = get_chart_data(self.portfolio_values, self.dates)]_vars

C39_RaisedAfterAReturn ==
    /\ phase = "idle"
    /\ Len(engine.returned) = 2
    /\ call(1).outcome = "returned"
    /\ call(2).outcome = "ValueError"
    /\ call(2).reused
    /\ call(2).args.strategy_name = "buy_and_hold"
    /\ validate_date_range(call(2).args.start_date, call(2).args.end_date,
                           engine.now)
    /\ performance_metrics = call(1).metrics
    /\ observable[2] # None

====
